---- MODULE Spec2Model ----
(***************************************************************************)
(* RxRadar: the medication-resolution state machine of the Streamlit       *)
(* frontend (src/Frontend/app.py, the same code as                         *)
(* src/frontend/for_fastapi_app.py) together with the persistence          *)
(* endpoints of the backend it talks to (src/Backend/main.py), under       *)
(* Spec; and the analysis endpoint of that backend (src/Backend/main.py    *)
(* analyze_medications with src/Backend/agent.py), under AnalysisSpec.     *)
(*                                                                         *)
(* A Python str is a sequence of one-character strings, so that lower(),   *)
(* strip(), join() and split() are computed and not assumed.               *)
(*                                                                         *)
(* The login widgets and BACKEND_URL, which src/Frontend/app.py uses and    *)
(* does not define, are those of src/frontend/for_fastapi_app.py (lines    *)
(* 221-225 and 102).  The two JSON files of the ingredient directory and   *)
(* the CSV file of the interaction records are data, not part of the       *)
(* sources; the model holds a small directory and small tables of the      *)
(* shape the code reads.                                                   *)
(*                                                                         *)
(* One action of the model is one user interaction as Streamlit runs it:   *)
(* the widget callback (on_click / on_change), then the script from top to *)
(* bottom, then the script again when it ended in st.rerun().              *)
(***************************************************************************)
EXTENDS Integers, Sequences, FiniteSets, TLC

(***************************************************************************)
(* Python str                                                              *)
(***************************************************************************)
ascii_uppercase ==
  << "A", "B", "C", "D", "E", "F", "G", "H", "I", "J", "K", "L", "M",
     "N", "O", "P", "Q", "R", "S", "T", "U", "V", "W", "X", "Y", "Z" >>

ascii_lowercase ==
  << "a", "b", "c", "d", "e", "f", "g", "h", "i", "j", "k", "l", "m",
     "n", "o", "p", "q", "r", "s", "t", "u", "v", "w", "x", "y", "z" >>

\* the characters of the model in code-point order
Ascii == << " ", ",", "." >> \o ascii_uppercase \o ascii_lowercase

\* the position of a character in a tuple of characters
IndexIn(chars, c) == CHOOSE i \in DOMAIN chars : chars[i] = c

Ord(c) == IndexIn(Ascii, c)

\* a character of "from" becomes the character of "to" at the same position
Translate(from, to, c) ==
  IF \E i \in DOMAIN from : from[i] = c THEN to[IndexIn(from, c)] ELSE c

\* str.lower() on one character
LowerChar(c) == Translate(ascii_uppercase, ascii_lowercase, c)

\* str.lower()
Lower(s) == [i \in DOMAIN s |-> LowerChar(s[i])]

RECURSIVE LStrip(_)
LStrip(s) == IF s # << >> /\ Head(s) = " " THEN LStrip(Tail(s)) ELSE s

RECURSIVE RStrip(_)
RStrip(s) ==
  IF s # << >> /\ s[Len(s)] = " " THEN RStrip(SubSeq(s, 1, Len(s) - 1)) ELSE s

\* str.strip()
Strip(s) == RStrip(LStrip(s))

\* s < t in Python's str order
RECURSIVE StrLess(_, _)
StrLess(s, t) ==
  IF t = << >> THEN FALSE
  ELSE IF s = << >> THEN TRUE
  ELSE IF Head(s) # Head(t) THEN Ord(Head(s)) < Ord(Head(t))
  ELSE StrLess(Tail(s), Tail(t))

(***************************************************************************)
(* difflib.get_close_matches, as called by the resolution pass             *)
(***************************************************************************)
\* the length of the common run of a[i..] and b[j..] (0-based, half-open bounds)
RECURSIVE RunLen(_, _, _, _, _, _)
RunLen(a, b, i, j, ahi, bhi) ==
  IF i < ahi /\ j < bhi /\ a[i + 1] = b[j + 1]
    THEN 1 + RunLen(a, b, i + 1, j + 1, ahi, bhi)
    ELSE 0

\* SequenceMatcher.find_longest_match: the longest block, of those the one that
\* starts earliest in a, of those the one that starts earliest in b
FindLongestMatch(a, b, alo, ahi, blo, bhi) ==
  LET Starts == (alo .. (ahi - 1)) \X (blo .. (bhi - 1))
      K(p) == RunLen(a, b, p[1], p[2], ahi, bhi)
      Best(p) == \A q \in Starts :
                    \/ K(q) < K(p)
                    \/ K(q) = K(p) /\ (p[1] < q[1] \/ (p[1] = q[1] /\ p[2] <= q[2]))
  IN IF Starts = {} \/ \A p \in Starts : K(p) = 0
       THEN << alo, blo, 0 >>
       ELSE LET p == CHOOSE q \in Starts : Best(q) IN << p[1], p[2], K(p) >>

\* the sum of the sizes of SequenceMatcher.get_matching_blocks
\* (get_matching_blocks queues the part left of the longest match << i, j, k >>
\* and the part right of it)
RECURSIVE MatchingSize(_, _, _, _, _, _)
RECURSIVE MatchingSizeAround(_, _, _, _, _, _, _, _, _)
MatchingSizeAround(a, b, alo, ahi, blo, bhi, i, j, k) ==
  IF k = 0 THEN 0
  ELSE k
       + (IF alo < i /\ blo < j THEN MatchingSize(a, b, alo, i, blo, j) ELSE 0)
       + (IF i + k < ahi /\ j + k < bhi
            THEN MatchingSize(a, b, i + k, ahi, j + k, bhi) ELSE 0)

Unpacked(a, b, alo, ahi, blo, bhi, m) ==
  MatchingSizeAround(a, b, alo, ahi, blo, bhi, m[1], m[2], m[3])

MatchingSize(a, b, alo, ahi, blo, bhi) ==
  Unpacked(a, b, alo, ahi, blo, bhi, FindLongestMatch(a, b, alo, ahi, blo, bhi))

\* SequenceMatcher(a, b).ratio() = 2.0 * M / T as the fraction << 2M, T >>
\* (<< 1, 1 >> for two empty strings)
Ratio(a, b) ==
  IF Len(a) + Len(b) = 0 THEN << 1, 1 >>
  ELSE << 2 * MatchingSize(a, b, 0, Len(a), 0, Len(b)), Len(a) + Len(b) >>

\* cutoff=0.6 as the fraction CutoffNum / CutoffDen, and n=5
CutoffNum == 6
CutoffDen == 10
MaxSuggestions == 5

\* ratio >= cutoff (real_quick_ratio and quick_ratio are upper bounds of ratio,
\* so the three tests of get_close_matches amount to this one)
ClearsCutoff(r) == r[1] * CutoffDen >= CutoffNum * r[2]

\* heapq.nlargest orders the (score, x) tuples: greater score first, then greater x
TupleGreater(rx, x, ry, y) ==
  \/ rx[1] * ry[2] > ry[1] * rx[2]
  \/ rx[1] * ry[2] = ry[1] * rx[2] /\ StrLess(y, x)

ScoredBefore(word, x, y) == TupleGreater(Ratio(x, word), x, Ratio(y, word), y)

RECURSIVE NLargest(_, _, _, _)
RECURSIVE TakeLargest(_, _, _, _, _)
TakeLargest(n, word, possibilities, idx, i) ==
  << possibilities[i] >> \o NLargest(n - 1, word, possibilities, idx \ {i})

NLargest(n, word, possibilities, idx) ==
  IF n = 0 \/ idx = {} THEN << >>
  ELSE TakeLargest(n, word, possibilities, idx,
                   CHOOSE c \in idx :
                     \A d \in idx \ {c} :
                        \/ ScoredBefore(word, possibilities[c], possibilities[d])
                        \/ possibilities[c] = possibilities[d] /\ c < d)

GetCloseMatches(word, possibilities) ==
  NLargest(MaxSuggestions, word, possibilities,
           { i \in DOMAIN possibilities : ClearsCutoff(Ratio(possibilities[i], word)) })

\* sorted(list of str)
RECURSIVE Sorted(_)
RECURSIVE SortedFrom(_, _)
SortedFrom(l, i) ==
  << l[i] >> \o Sorted([ k \in 1 .. (Len(l) - 1) |-> IF k < i THEN l[k] ELSE l[k + 1] ])

Sorted(l) ==
  IF l = << >> THEN << >>
  ELSE SortedFrom(l, CHOOSE c \in DOMAIN l :
                       \A d \in DOMAIN l :
                          d = c \/ StrLess(l[c], l[d]) \/ (l[c] = l[d] /\ c < d))

(***************************************************************************)
(* The ingredient directory (data/known_names.json and                     *)
(* data/brand_disambiguation.json as loaded by get_drug_dictionary)        *)
(***************************************************************************)
ibu == << "i", "b", "u" >>
dph == << "d", "p", "h" >>
nap == << "n", "a", "p" >>

\* lines 148-149: what json.load read from data/brand_disambiguation.json
VARIABLE brand_disambiguation

\* brand_disambiguation.json: brand -> list of {display_name, active_ingredients}.
\*   "Ad": a brand with two formulations, also listed as a known name
\*   "Mo": a brand with two formulations, the first displayed as the brand itself
\*   "Al": a brand with one formulation, also listed as a known name
BRAND_DISAMBIGUATION_JSON ==
  << [ key |-> << "A", "d" >>,
       options |-> << [ display_name |-> << "A", "d", "i" >>, active_ingredients |-> << ibu >> ],
                      [ display_name |-> << "A", "d", "p" >>, active_ingredients |-> << ibu, dph >> ] >> ],
     [ key |-> << "M", "o" >>,
       options |-> << [ display_name |-> << "M", "o" >>, active_ingredients |-> << ibu >> ],
                      [ display_name |-> << "M", "o", "p" >>, active_ingredients |-> << ibu, dph >> ] >> ],
     [ key |-> << "A", "l" >>,
       options |-> << [ display_name |-> << "A", "l", "e" >>, active_ingredients |-> << nap >> ] >> ] >>

\* known_names.json
ALL_KNOWN_NAMES_FOR_SPELLCHECK ==
  << << "a", "d" >>, << "a", "d", "u" >>, << "M", "o" >>, << "A", "l" >> >>

\* {name.lower() for name in names}
LowerSet(names) == { Lower(names[i]) : i \in DOMAIN names }

ALL_KNOWN_NAMES_FOR_SPELLCHECK_LOWER_SET == LowerSet(ALL_KNOWN_NAMES_FOR_SPELLCHECK)

\* {k.lower(): v for k, v in items}, in insertion order
LowerKeys(items) ==
  [ i \in DOMAIN items |-> [ key |-> Lower(items[i].key), options |-> items[i].options ] ]

BRAND_DISAMBIGUATION_MAP == LowerKeys(brand_disambiguation)

\* key in d, and d[key], for a dict d kept as the tuple of its items
HasKey(d, key) == \E i \in DOMAIN d : d[i].key = key

Get(d, key) == d[CHOOSE i \in DOMAIN d : d[i].key = key].options

\* typed_name_lower in BRAND_DISAMBIGUATION_MAP
InBrandMap(typed_name_lower) == HasKey(BRAND_DISAMBIGUATION_MAP, typed_name_lower)

\* BRAND_DISAMBIGUATION_MAP[typed_name_lower]
BrandOptions(typed_name_lower) == Get(BRAND_DISAMBIGUATION_MAP, typed_name_lower)

\* the options of every brand, in the order the two nested loops visit them
RECURSIVE OptionsFrom(_, _)
OptionsFrom(d, i) ==
  IF i > Len(d) THEN << >> ELSE d[i].options \o OptionsFrom(d, i + 1)

AllOptions == OptionsFrom(BRAND_DISAMBIGUATION_MAP, 1)

\* the loops "for brand_key, options_list ... for option ..." stop at the first
\* option whose display_name equals the typed name ignoring case
HasDisplayName(options, typed_name_lower) ==
  \E k \in DOMAIN options : Lower(options[k].display_name) = typed_name_lower

FirstDisplayName(options, typed_name_lower) ==
  options[CHOOSE k \in DOMAIN options :
            /\ Lower(options[k].display_name) = typed_name_lower
            /\ \A j \in 1 .. (k - 1) : Lower(options[j].display_name) # typed_name_lower]

HasDirectMatch(typed_name_lower) == HasDisplayName(AllOptions, typed_name_lower)

DirectMatch(typed_name_lower) == FirstDisplayName(AllOptions, typed_name_lower)

UNKNOWN == << "U", "N", "K", "N", "O", "W", "N" >>

\* "Unrecognized medication spelling. Please check and retype this medication."
UNRECOGNIZED_MESSAGE ==
  << "U", "n", "r", "e", "c", "o", "g", "n", "i", "z", "e", "d", " ",
     "m", "e", "d", "i", "c", "a", "t", "i", "o", "n", " ", "s", "p",
     "e", "l", "l", "i", "n", "g", ".", " ", "P", "l", "e", "a", "s",
     "e", " ", "c", "h", "e", "c", "k", " ", "a", "n", "d", " ", "r",
     "e", "t", "y", "p", "e", " ", "t", "h", "i", "s", " ", "m", "e",
     "d", "i", "c", "a", "t", "i", "o", "n", "." >>

(***************************************************************************)
(* Backend persistence (src/Backend/main.py): the UserMedication rows of   *)
(* the one account of the model                                            *)
(***************************************************************************)
\* sep.join(l) for a list of str
RECURSIVE Join(_, _)
Join(sep, l) ==
  IF l = << >> THEN << >>
  ELSE IF Len(l) = 1 THEN l[1]
  ELSE l[1] \o sep \o Join(sep, Tail(l))

\* s.split(c) for a one-character separator c
RECURSIVE Split(_, _)
Split(s, c) ==
  IF \E k \in DOMAIN s : s[k] = c
    THEN LET k == CHOOSE j \in DOMAIN s : s[j] = c /\ \A h \in 1 .. (j - 1) : s[h] # c
         IN << SubSeq(s, 1, k - 1) >> \o Split(SubSeq(s, k + 1, Len(s)), c)
    ELSE << s >>

\* save_user_medications: the user's rows are deleted, then one row per medication
\* of the request is inserted, active_ingredients joined into one string
save_user_medications(request_medications) ==
  [ k \in DOMAIN request_medications |->
      [ name |-> request_medications[k].name,
        dosage |-> request_medications[k].dosage,
        frequency |-> request_medications[k].frequency,
        active_ingredients |-> Join(<< "," >>, request_medications[k].active_ingredients) ] ]

\* login: the "medications" of the response, active_ingredients split again
login(rows) ==
  [ k \in DOMAIN rows |->
      [ name |-> rows[k].name,
        dosage |-> rows[k].dosage,
        frequency |-> rows[k].frequency,
        active_ingredients |->
          IF rows[k].active_ingredients # << >>
            THEN Split(rows[k].active_ingredients, ",")
            ELSE << >> ] ]

\* load_user_medications: the "medications" of the response, built from the
\* user's rows in the order of the query
load_user_medications(rows) ==
  [ k \in DOMAIN rows |->
      [ name |-> rows[k].name,
        dosage |-> rows[k].dosage,
        frequency |-> rows[k].frequency,
        active_ingredients |->
          IF rows[k].active_ingredients # << >>
            THEN Split(rows[k].active_ingredients, ",")
            ELSE << >> ] ]

(***************************************************************************)
(* Frontend session (st.session_state of src/Frontend/app.py)              *)
(***************************************************************************)
VARIABLES
  session_state,     \* logged_in, medications, the two candidate lists,
                     \* current_analysis_state, the rerun flags, login_error_message
  user_medications,  \* the rows the backend holds for the account
  analysis_calls,    \* the arguments of the calls of perform_analysis_and_display_alerts
                     \* made during the last interaction
  last_event,        \* the last interaction and the locals of its handler
  edits,             \* the number of text fields edited so far
  logins,            \* the number of successful logins so far
  baseline_df,       \* agent.py: the rows of baseline_model_data.csv
  PYTHONHASHSEED,    \* the order in which this interpreter iterates a set of str
  med_input,         \* the body of the POST /analyze_medications request
  analysis,          \* the locals and the response of analyze_medications
  save_request,      \* the body of the POST /save_medications request
  save_result,       \* the response to it
  load_result,       \* the response of GET /load_medications or POST /login
  local_analysis,    \* the locals and the response of analyze_medications of
                     \* src/backend/main.py
  all_pairs,         \* the argument and the result of analyze_all_pairs
  medication,        \* the names in the table of Medication
  db_sessions        \* the Session of each save request in progress: its request,
                     \* its position in the handler and the rows it has added

frontend_vars ==
  << brand_disambiguation, session_state, user_medications, analysis_calls, last_event,
     edits, logins >>

\* the analysis backend (src/Backend/main.py lines 51-119, src/Backend/agent.py)
backend_vars == << baseline_df, PYTHONHASHSEED, med_input, analysis >>

\* the persistence endpoints (src/Backend/main.py lines 185-263)
persistence_vars == << save_request, save_result, load_result >>

\* the simplified local backend (src/backend/main.py) and analyze_all_pairs of
\* src/Backend/agent.py
variant_vars == << local_analysis, all_pairs >>

\* the database as concurrent requests see it (src/Backend/main.py lines 215-263)
concurrency_vars == << medication, db_sessions >>

vars == << frontend_vars, backend_vars, persistence_vars, variant_vars, concurrency_vars >>

\* analyze_medications has not run
NotRun == [ ran |-> FALSE ]

\* a request that has not been sent has no response
NotSent == [ sent |-> FALSE ]

\* no request to the local backend, no call of analyze_all_pairs, and no save
\* request in progress
NoOtherRequest ==
  /\ local_analysis = NotRun
  /\ all_pairs = NotRun
  /\ medication = {}
  /\ db_sessions = << >>

EmptyRow ==
  [ name |-> << >>, dosage |-> << >>, frequency |-> << >>,
    active_ingredients |-> << >>, status |-> "pending" ]

\* lines 183-209
InitialSessionState ==
  [ logged_in |-> FALSE,
    medications |-> << EmptyRow >>,
    unrecognized_meds_to_correct |-> << >>,
    meds_to_disambiguate |-> << >>,
    current_analysis_state |-> "initial",
    login_error_message |-> "",
    login_redirect_needed |-> FALSE,
    analysis_rerun_needed |-> FALSE,
    logout_redirect_needed |-> FALSE ]

\* med['name'].strip() and med['dosage'].strip() and med['frequency'].strip()
Complete(med) ==
  Strip(med.name) # << >> /\ Strip(med.dosage) # << >> /\ Strip(med.frequency) # << >>

\* typed_name_raw.strip().lower()
Normalized(typed_name_raw) == Lower(Strip(typed_name_raw))

\* lines 517-519: the first option whose display name is the typed name
ResolveDirect(acc, i, option) ==
  [ acc EXCEPT !.medications[i].name = option.display_name,
               !.medications[i].active_ingredients = option.active_ingredients,
               !.medications[i].status = "resolved" ]

\* lines 530-544: the typed name is a brand key with these options
ResolveBrand(acc, i, typed_name_raw, options) ==
  IF Len(options) > 1 THEN
    [ acc EXCEPT !.meds_to_disambiguate =
                    Append(@, [ index |-> i,
                                original_name |-> typed_name_raw,
                                options |-> options,
                                selected_disambiguation |-> typed_name_raw ]),
                 !.medications[i].status = "needs_disambiguation",
                 !.needs_disambiguation = TRUE ]
  ELSE IF Len(options) = 1 THEN
    [ acc EXCEPT !.medications[i].active_ingredients = options[1].active_ingredients,
                 !.medications[i].name = options[1].display_name,
                 !.medications[i].status = "resolved" ]
  ELSE acc

\* lines 555-570: the typed name is unrecognized, with these close matches
ResolveUnrecognized(acc, i, typed_name_raw, suggestions) ==
  [ acc EXCEPT !.unrecognized_meds_to_correct =
                  Append(@, [ index |-> i,
                              original_name |-> typed_name_raw,
                              suggestions |-> IF suggestions # << >>
                                                THEN suggestions
                                                ELSE << UNRECOGNIZED_MESSAGE >>,
                              selected_correction |-> typed_name_raw ]),
               !.medications[i].status = "needs_spell_check",
               !.needs_spell_check = TRUE ]

\* the rules with the known-name rule tried before the brand-key rule
ResolveName_KnownNameFirst(acc, i, typed_name_raw, typed_name_lower) ==
  IF HasDirectMatch(typed_name_lower) THEN
    ResolveDirect(acc, i, DirectMatch(typed_name_lower))
  ELSE IF typed_name_lower \in ALL_KNOWN_NAMES_FOR_SPELLCHECK_LOWER_SET THEN
    [ acc EXCEPT !.medications[i].active_ingredients = << typed_name_raw >>,
                 !.medications[i].status = "resolved" ]
  ELSE IF InBrandMap(typed_name_lower) THEN
    ResolveBrand(acc, i, typed_name_raw, BrandOptions(typed_name_lower))
  ELSE
    ResolveUnrecognized(acc, i, typed_name_raw,
                        GetCloseMatches(typed_name_lower, ALL_KNOWN_NAMES_FOR_SPELLCHECK))

\* the rules with the brand-key rule tried before the display-name rule
ResolveName_BrandKeyFirst(acc, i, typed_name_raw, typed_name_lower) ==
  IF InBrandMap(typed_name_lower) THEN
    ResolveBrand(acc, i, typed_name_raw, BrandOptions(typed_name_lower))
  ELSE IF HasDirectMatch(typed_name_lower) THEN
    ResolveDirect(acc, i, DirectMatch(typed_name_lower))
  ELSE IF typed_name_lower \in ALL_KNOWN_NAMES_FOR_SPELLCHECK_LOWER_SET THEN
    [ acc EXCEPT !.medications[i].active_ingredients = << typed_name_raw >>,
                 !.medications[i].status = "resolved" ]
  ELSE
    ResolveUnrecognized(acc, i, typed_name_raw,
                        GetCloseMatches(typed_name_lower, ALL_KNOWN_NAMES_FOR_SPELLCHECK))

\* lines 513-570: the rules in the order the code tries them
ResolveName(acc, i, typed_name_raw, typed_name_lower) ==
  IF HasDirectMatch(typed_name_lower) THEN
    ResolveDirect(acc, i, DirectMatch(typed_name_lower))
  ELSE IF InBrandMap(typed_name_lower) THEN
    ResolveBrand(acc, i, typed_name_raw, BrandOptions(typed_name_lower))
  ELSE IF typed_name_lower \in ALL_KNOWN_NAMES_FOR_SPELLCHECK_LOWER_SET THEN
    [ acc EXCEPT !.medications[i].active_ingredients = << typed_name_raw >>,
                 !.medications[i].status = "resolved" ]
  ELSE
    ResolveUnrecognized(acc, i, typed_name_raw,
                        GetCloseMatches(typed_name_lower, ALL_KNOWN_NAMES_FOR_SPELLCHECK))

\* one iteration of the loop without the test of lines 504-505
ResolveEntry_NoSkip(acc, i) ==
  IF Strip(acc.medications[i].name) = << >> THEN acc
  ELSE ResolveName(acc, i, acc.medications[i].name, Normalized(acc.medications[i].name))

\* one iteration of "for i, med_entry in enumerate(st.session_state.medications)";
\* acc holds medications, the two candidate lists and the two flags of the pass.
\* A candidate's index is the row's position counted from 1 (the code's i + 1).
ResolveEntry(acc, i) ==
  IF acc.medications[i].status = "resolved" THEN acc
  ELSE IF Strip(acc.medications[i].name) = << >> THEN acc
  ELSE ResolveName(acc, i, acc.medications[i].name, Normalized(acc.medications[i].name))

RECURSIVE ResolveFrom(_, _)
ResolveFrom(acc, i) ==
  IF i > Len(acc.medications) THEN acc ELSE ResolveFrom(ResolveEntry(acc, i), i + 1)

\* the two counters of lines 579-585
total_valid_entered(medications) ==
  Cardinality({ i \in DOMAIN medications : Complete(medications[i]) })

resolved_count(medications) ==
  Cardinality({ i \in DOMAIN medications :
                  Complete(medications[i]) /\ medications[i].status = "resolved" })

\* the next-state decision with the spell-check prompt taking priority
NextAnalysisState_SpellCheckFirst(acc) ==
  IF acc.needs_spell_check THEN "spell_checking"
  ELSE IF acc.needs_disambiguation THEN "disambiguating"
  ELSE IF /\ total_valid_entered(acc.medications) > 0
          /\ resolved_count(acc.medications) = total_valid_entered(acc.medications)
    THEN "displaying_results"
    ELSE "initial"

\* the next-state decision after the loop (lines 573-593)
NextAnalysisState(acc) ==
  IF acc.needs_disambiguation THEN "disambiguating"
  ELSE IF acc.needs_spell_check THEN "spell_checking"
  ELSE IF /\ total_valid_entered(acc.medications) > 0
          /\ resolved_count(acc.medications) = total_valid_entered(acc.medications)
    THEN "displaying_results"
    ELSE "initial"

NoPass ==
  [ ran |-> FALSE, before |-> << >>,
    needs_disambiguation |-> FALSE, needs_spell_check |-> FALSE ]

\* "if analyze_button_clicked:" (lines 479-489): every entry is set to pending and,
\* its status then being other than resolved, its active_ingredients is emptied
ResetEntry(med) ==
  IF med.active_ingredients = << >> \/ med.status # "resolved"
    THEN [ med EXCEPT !.active_ingredients = << >> ]
    ELSE med

AnalyzeClicked(ss) ==
  [ ss EXCEPT !.current_analysis_state = "checking_inputs",
              !.unrecognized_meds_to_correct = << >>,
              !.meds_to_disambiguate = << >>,
              !.medications =
                 [ k \in DOMAIN ss.medications |->
                     ResetEntry([ ss.medications[k] EXCEPT !.status = "pending" ]) ] ]

(***************************************************************************)
(* Widget callbacks.  Streamlit runs the callback of the widget the user   *)
(* acted on before it runs the script; a callback that raises ends the     *)
(* interaction with what it had assigned so far, and the script is not run.*)
(* A callback's result is st = [ss, raised].                               *)
(***************************************************************************)
Done(ss) == [ ss |-> ss, raised |-> FALSE ]

\* add_medication_row without the assignment of line 375
add_medication_row_StateKept(ss) ==
  [ ss EXCEPT !.medications = Append(@, EmptyRow),
              !.unrecognized_meds_to_correct = << >>,
              !.meds_to_disambiguate = << >> ]

add_medication_row(ss) ==
  [ ss EXCEPT !.medications = Append(@, EmptyRow),
              !.unrecognized_meds_to_correct = << >>,
              !.meds_to_disambiguate = << >>,
              !.current_analysis_state = "initial" ]

\* medications.pop(index_to_delete)
Pop(l, i) == [ k \in 1 .. (Len(l) - 1) |-> IF k < i THEN l[k] ELSE l[k + 1] ]

\* delete_medication_row without the test of line 380
delete_medication_row_NoTest(ss, index_to_delete) ==
  [ ss EXCEPT !.medications = Pop(@, index_to_delete),
              !.unrecognized_meds_to_correct = << >>,
              !.meds_to_disambiguate = << >>,
              !.current_analysis_state = "initial",
              !.analysis_rerun_needed = TRUE ]

delete_medication_row(ss, index_to_delete) ==
  IF Len(ss.medications) > 1
    THEN [ ss EXCEPT !.medications = Pop(@, index_to_delete),
                     !.unrecognized_meds_to_correct = << >>,
                     !.meds_to_disambiguate = << >>,
                     !.current_analysis_state = "initial",
                     !.analysis_rerun_needed = TRUE ]
    ELSE ss

update_single_disambiguation_in_state(ss, disambiguation_entry_idx, value) ==
  [ ss EXCEPT !.meds_to_disambiguate[disambiguation_entry_idx].selected_disambiguation = value ]

update_single_correction_in_state(ss, unrecognized_entry_idx, value) ==
  [ ss EXCEPT !.unrecognized_meds_to_correct[unrecognized_entry_idx].selected_correction = value ]

\* the options a selectbox offers and the one it shows (options[default_index])
DisambiguationOptions(entry) ==
  << entry.original_name >> \o [ k \in DOMAIN entry.options |-> entry.options[k].display_name ]

CorrectionOptions(entry) ==
  IF entry.suggestions = << UNRECOGNIZED_MESSAGE >>
    THEN entry.suggestions
    ELSE << entry.original_name >> \o Sorted(entry.suggestions)

Shown(options, current_selected) ==
  IF \E k \in DOMAIN options : options[k] = current_selected
    THEN current_selected
    ELSE options[1]

\* next((opt for opt in options if opt['display_name'] == name), None), when there is one
HasOption(options, name) == \E k \in DOMAIN options : options[k].display_name = name

FirstOption(options, name) ==
  options[CHOOSE k \in DOMAIN options :
            /\ options[k].display_name = name
            /\ \A j \in 1 .. (k - 1) : options[j].display_name # name]

\* one iteration of the loop of confirm_disambiguations
ConfirmDisambiguation(st, entry) ==
  IF st.raised THEN st
  ELSE IF entry.index > Len(st.ss.medications) THEN [ st EXCEPT !.raised = TRUE ]  \* IndexError
  ELSE IF /\ entry.selected_disambiguation # entry.original_name
          /\ HasOption(entry.options, entry.selected_disambiguation) THEN
    [ st EXCEPT
        !.ss.medications[entry.index].name =
           FirstOption(entry.options, entry.selected_disambiguation).display_name,
        !.ss.medications[entry.index].active_ingredients =
           FirstOption(entry.options, entry.selected_disambiguation).active_ingredients,
        !.ss.medications[entry.index].status = "resolved" ]
  ELSE [ st EXCEPT !.ss.medications[entry.index].status = "pending",
                   !.ss.medications[entry.index].active_ingredients = << >> ]

RECURSIVE ConfirmDisambiguationsFrom(_, _, _)
ConfirmDisambiguationsFrom(st, entries, k) ==
  IF k > Len(entries) THEN st
  ELSE ConfirmDisambiguationsFrom(ConfirmDisambiguation(st, entries[k]), entries, k + 1)

\* lines 652-654, reached when the loop did not raise
DisambiguationsConfirmed(st) ==
  IF st.raised THEN st
  ELSE [ st EXCEPT !.ss.meds_to_disambiguate = << >>,
                   !.ss.current_analysis_state = "checking_inputs",
                   !.ss.analysis_rerun_needed = TRUE ]

confirm_disambiguations(ss) ==
  DisambiguationsConfirmed(ConfirmDisambiguationsFrom(Done(ss), ss.meds_to_disambiguate, 1))

\* lines 714-726, st being the state lines 708-712 leave
CorrectionDirect(st, med_idx, typed_name_lower) ==
  IF HasDirectMatch(typed_name_lower)
    THEN [ ResolveDirect(st, med_idx, DirectMatch(typed_name_lower))
             EXCEPT !.resolved_this_med = TRUE ]
    ELSE st

\* lines 730-744; a brand with several formulations leaves resolved_this_med False
CorrectionBrandOptions(st, med_idx, selected_name, options) ==
  IF Len(options) > 1 THEN
    [ st EXCEPT !.meds_to_disambiguate =
                   Append(@, [ index |-> med_idx,
                               original_name |-> selected_name,
                               options |-> options,
                               selected_disambiguation |-> selected_name ]),
                !.medications[med_idx].status = "needs_disambiguation" ]
  ELSE IF Len(options) = 1 THEN
    [ st EXCEPT !.medications[med_idx].active_ingredients = options[1].active_ingredients,
                !.medications[med_idx].name = options[1].display_name,
                !.medications[med_idx].status = "resolved",
                !.resolved_this_med = TRUE ]
  ELSE st

\* lines 725-747
CorrectionBrand(st, med_idx, selected_name, typed_name_lower) ==
  IF ~ st.resolved_this_med /\ InBrandMap(typed_name_lower)
    THEN CorrectionBrandOptions(st, med_idx, selected_name, BrandOptions(typed_name_lower))
    ELSE st

\* lines 746-759
CorrectionKnownName(st, med_idx, selected_name, typed_name_lower) ==
  IF st.resolved_this_med THEN st
  ELSE IF typed_name_lower \in ALL_KNOWN_NAMES_FOR_SPELLCHECK_LOWER_SET
    THEN [ st EXCEPT !.medications[med_idx].active_ingredients = << selected_name >>,
                     !.medications[med_idx].status = "resolved",
                     !.resolved_this_med = TRUE ]
    ELSE [ st EXCEPT !.medications[med_idx].active_ingredients = << UNKNOWN >>,
                     !.medications[med_idx].status = "pending" ]

\* lines 708-759 for one entry; loc is the loop body's view of the state:
\* medications, meds_to_disambiguate and the local resolved_this_med
ResolveCorrection(loc, med_idx, selected_name, typed_name_lower) ==
  CorrectionKnownName(
    CorrectionBrand(
      CorrectionDirect(
        [ loc EXCEPT !.medications[med_idx].name = selected_name,
                     !.medications[med_idx].active_ingredients = << >>,
                     !.medications[med_idx].status = "pending" ],
        med_idx, typed_name_lower),
      med_idx, selected_name, typed_name_lower),
    med_idx, selected_name, typed_name_lower)

\* the assignments of one iteration written back to the session state
Corrected(st, loc) ==
  [ st EXCEPT !.ss.medications = loc.medications,
              !.ss.meds_to_disambiguate = loc.meds_to_disambiguate ]

\* one iteration of the loop of confirm_spell_checks
ConfirmSpellCheck(st, entry) ==
  IF st.raised THEN st
  ELSE IF entry.index > Len(st.ss.medications) THEN [ st EXCEPT !.raised = TRUE ]  \* IndexError
  ELSE IF entry.selected_correction = UNRECOGNIZED_MESSAGE THEN
    [ st EXCEPT !.ss.medications[entry.index].name = entry.original_name,
                !.ss.medications[entry.index].active_ingredients = << >>,
                !.ss.medications[entry.index].status = "pending" ]
  ELSE
    Corrected(st,
      ResolveCorrection(
        [ medications |-> st.ss.medications,
          meds_to_disambiguate |-> st.ss.meds_to_disambiguate,
          resolved_this_med |-> FALSE ],
        entry.index, entry.selected_correction, Normalized(entry.selected_correction)))

RECURSIVE ConfirmSpellChecksFrom(_, _, _)
ConfirmSpellChecksFrom(st, entries, k) ==
  IF k > Len(entries) THEN st
  ELSE ConfirmSpellChecksFrom(ConfirmSpellCheck(st, entries[k]), entries, k + 1)

\* lines 761-767, reached when the loop did not raise
SpellChecksConfirmed(st) ==
  IF st.raised THEN st
  ELSE [ st EXCEPT !.ss.unrecognized_meds_to_correct = << >>,
                   !.ss.current_analysis_state =
                      IF st.ss.meds_to_disambiguate # << >>
                        THEN "disambiguating"
                        ELSE "checking_inputs",
                   !.ss.analysis_rerun_needed = TRUE ]

confirm_spell_checks(ss) ==
  SpellChecksConfirmed(ConfirmSpellChecksFrom(Done(ss), ss.unrecognized_meds_to_correct, 1))

\* the entries do_login builds from the "medications" of the response
LoadedMedications(loaded_meds_data) ==
  IF loaded_meds_data # << >>
    THEN [ k \in DOMAIN loaded_meds_data |->
             [ name |-> loaded_meds_data[k].name,
               dosage |-> loaded_meds_data[k].dosage,
               frequency |-> loaded_meds_data[k].frequency,
               active_ingredients |-> loaded_meds_data[k].active_ingredients,
               status |-> "resolved" ] ]
    ELSE << EmptyRow >>

\* do_login with username, password and consent given; response is "ok" (status
\* 200), "rejected" (another status) or "unreachable" (ConnectionError)
do_login(ss, rows, response) ==
  IF response = "ok" THEN
    [ ss EXCEPT !.login_error_message = "",
                !.logged_in = TRUE,
                !.medications = LoadedMedications(login(rows)),
                !.login_redirect_needed = TRUE ]
  ELSE IF response = "rejected" THEN
    [ ss EXCEPT !.login_error_message = "Login failed" ]
  ELSE
    [ ss EXCEPT !.login_error_message = "Could not connect to the backend" ]

(***************************************************************************)
(* The script.  A run is [ss, db, calls, pass, all_entered_meds, rerun]:   *)
(* the session state, the backend rows, the analysis calls made so far in  *)
(* this interaction, the locals of the resolution pass if it ran, the rows *)
(* that were complete at line 430, and whether the run ended in st.rerun().*)
(* An input is what the widgets return in this run: the text typed into    *)
(* one field (edit = << row, field, text >>, or << >>), the two buttons    *)
(* tested with "if", and the backend's answer to a save.  A text_input     *)
(* returns the entry's current value unless the user typed into it in this *)
(* interaction (its value argument is the entry's field).                  *)
(***************************************************************************)
NoInput ==
  [ edit |-> << >>, analyze_button_clicked |-> FALSE,
    logout_clicked |-> FALSE, save_response |-> "none" ]

\* lines 366-367
EnsureRow(ss) ==
  IF ss.medications = << >> THEN [ ss EXCEPT !.medications = << EmptyRow >> ] ELSE ss

\* lines 390-414: medications[i][field] = st.text_input(...)
TextInputs(ss, edit) ==
  IF edit = << >> THEN ss
  ELSE [ ss EXCEPT !.medications[edit[1]] =
           IF edit[2] = "name" THEN [ @ EXCEPT !.name = edit[3] ]
           ELSE IF edit[2] = "dosage" THEN [ @ EXCEPT !.dosage = edit[3] ]
           ELSE [ @ EXCEPT !.frequency = edit[3] ] ]

\* lines 430-433
AllEnteredMeds(run) ==
  [ run EXCEPT !.all_entered_meds =
      { k \in DOMAIN run.ss.medications : Complete(run.ss.medications[k]) } ]

\* lines 573-593 and the assignments of the loop, acc being what the loop computed
AfterLoop(run, acc) ==
  [ run EXCEPT !.ss.medications = acc.medications,
               !.ss.meds_to_disambiguate = acc.meds_to_disambiguate,
               !.ss.unrecognized_meds_to_correct = acc.unrecognized_meds_to_correct,
               !.ss.current_analysis_state = NextAnalysisState(acc),
               !.pass = [ ran |-> TRUE, before |-> run.ss.medications,
                          needs_disambiguation |-> acc.needs_disambiguation,
                          needs_spell_check |-> acc.needs_spell_check ] ]

\* the else branch of "if not all_entered_meds": the resolution pass over all
\* entries and the decision of the next state
ResolutionPass(run) ==
  AfterLoop(run, ResolveFrom([ medications |-> run.ss.medications,
                               meds_to_disambiguate |-> << >>,
                               unrecognized_meds_to_correct |-> << >>,
                               needs_disambiguation |-> FALSE,
                               needs_spell_check |-> FALSE ], 1))

\* lines 491-593
CheckingInputs(run) ==
  IF run.ss.current_analysis_state = "checking_inputs"
    THEN IF run.all_entered_meds = {}
           THEN [ run EXCEPT !.ss.current_analysis_state = "initial" ]
           ELSE ResolutionPass(run)
    ELSE run

\* lines 477-593
StateTransition(run, analyze_button_clicked) ==
  IF \/ analyze_button_clicked
     \/ run.ss.current_analysis_state \in { "disambiguating", "spell_checking" }
    THEN CheckingInputs(IF analyze_button_clicked
                          THEN [ run EXCEPT !.ss = AnalyzeClicked(@) ]
                          ELSE run)
    ELSE run

\* the rows of a set of positions, in list order
RECURSIVE Rows(_, _, _)
Rows(meds, idx, k) ==
  IF k > Len(meds) THEN << >>
  ELSE (IF k \in idx THEN << meds[k] >> ELSE << >>) \o Rows(meds, idx, k + 1)

\* lines 772-775: perform_analysis_and_display_alerts(all_entered_meds)
DisplayResults(run) ==
  IF run.ss.current_analysis_state = "displaying_results"
    THEN [ run EXCEPT !.calls = Append(@, Rows(run.ss.medications, run.all_entered_meds, 1)) ]
    ELSE run

\* lines 781-814: the Logout button
Logout(run, input) ==
  IF input.logout_clicked
    THEN [ run EXCEPT
             !.db = IF input.save_response = "ok"
                      THEN save_user_medications(
                             Rows(run.ss.medications,
                                  { k \in DOMAIN run.ss.medications :
                                      Strip(run.ss.medications[k].name) # << >> }, 1))
                      ELSE @,
             !.ss.logged_in = FALSE,
             !.ss.medications = << >>,          \* session_state.pop('medications')
             !.ss.logout_redirect_needed = TRUE ]
    ELSE run

\* lines 817-823
EndOfPage(run) ==
  IF run.ss.analysis_rerun_needed
    THEN [ run EXCEPT !.ss.analysis_rerun_needed = FALSE, !.rerun = TRUE ]
  ELSE IF run.ss.logout_redirect_needed
    THEN [ run EXCEPT !.ss.logout_redirect_needed = FALSE, !.rerun = TRUE ]
  ELSE run

main_app_page(run, input) ==
  EndOfPage(
    Logout(
      DisplayResults(
        StateTransition(
          AllEnteredMeds([ run EXCEPT !.ss = TextInputs(EnsureRow(@), input.edit) ]),
          input.analyze_button_clicked)),
      input))

\* lines 320-322 are all of login_page that touches the session state
login_page(run) ==
  IF run.ss.login_redirect_needed
    THEN [ run EXCEPT !.ss.login_redirect_needed = FALSE, !.rerun = TRUE ]
    ELSE run

\* the module level of the script: lines 185-186, then lines 826-837
TopLevel(run, input) ==
  IF run.ss.login_redirect_needed
    THEN [ run EXCEPT !.ss.login_redirect_needed = FALSE, !.rerun = TRUE ]
  ELSE IF run.ss.logout_redirect_needed
    THEN [ run EXCEPT !.ss.logout_redirect_needed = FALSE, !.rerun = TRUE ]
  ELSE IF run.ss.logged_in THEN main_app_page(run, input)
  ELSE login_page(run)

\* one run of the script, and the runs that st.rerun() starts after it (the
\* buttons are back to False and no field is edited in those)
RECURSIVE Script(_, _)
Rerun(run) == IF run.rerun THEN Script(run, NoInput) ELSE run

Script(run, input) ==
  Rerun(TopLevel([ run EXCEPT !.ss = EnsureRow(@), !.rerun = FALSE ], input))

\* a whole interaction: the callback's result st, then the script
Interaction(st, rows, input) ==
  IF st.raised
    THEN [ ss |-> st.ss, db |-> rows, calls |-> << >>, pass |-> NoPass,
           all_entered_meds |-> {}, rerun |-> FALSE ]
    ELSE Script([ ss |-> st.ss, db |-> rows, calls |-> << >>, pass |-> NoPass,
                  all_entered_meds |-> {}, rerun |-> FALSE ], input)

\* the end of an interaction: what it leaves in the session, in the backend and
\* on the page
Commit(run, event) ==
  /\ session_state' = run.ss
  /\ user_medications' = run.db
  /\ analysis_calls' = run.calls
  /\ last_event' = event
  /\ edits' = IF event.op = "text_input" THEN edits + 1 ELSE edits
  /\ logins' = IF event.op = "do_login" /\ event.response = "ok" THEN logins + 1 ELSE logins
  /\ UNCHANGED << brand_disambiguation, backend_vars, persistence_vars, variant_vars,
                  concurrency_vars >>

\* an interaction whose event records the locals of the resolution pass
CommitPass(run, op) == Commit(run, [ op |-> op, pass |-> run.pass ])

\* an interaction that starts with a confirm callback over the given candidates
CommitConfirm(st, op, candidates) ==
  Commit(Interaction(st, user_medications, NoInput),
         [ op |-> op, candidates |-> candidates, raised |-> st.raised ])

(***************************************************************************)
(* User input                                                              *)
(***************************************************************************)
MaxMeds == 2   \* rows the user keeps in the list

MaxInputs == 2  \* text fields the user edits, and logins after the first, in one behaviour

MaxCandidates == 2  \* disambiguation candidates left by confirmations that raised

\* what the user types into a name field
TypedNames ==
  { << >>,
    << " ", "A", "D" >>,       \* a brand with two formulations, also a known name
    << "m", "o" >>,            \* the display name of a formulation, also a brand and a known name
    << "a", "l" >>,            \* a brand with one formulation, also a known name
    << "a", "d", "x" >>,       \* a misspelling close to two known names
    << "z", "z" >> }           \* a spelling close to no known name

TypedDosages == { << >>, << "m", "g" >> }

TypedFrequencies == { << >>, << "d" >> }

TypedText(field) ==
  IF field = "name" THEN TypedNames
  ELSE IF field = "dosage" THEN TypedDosages
  ELSE TypedFrequencies

FieldOf(med, field) ==
  IF field = "name" THEN med.name
  ELSE IF field = "dosage" THEN med.dosage
  ELSE med.frequency

(***************************************************************************)
(* Actions: one per user interaction                                       *)
(***************************************************************************)
InputsUsed == edits + (IF logins > 0 THEN logins - 1 ELSE 0)

\* what the account holds when the session starts: nothing, or the rows an
\* earlier session saved at logout after resolving them
SavedMo ==
  [ name |-> << "M", "o" >>, dosage |-> << "m", "g" >>, frequency |-> << "d" >>,
    active_ingredients |-> << "i", "b", "u" >> ]

SavedAdp ==
  [ name |-> << "A", "d", "p" >>, dosage |-> << "m", "g" >>, frequency |-> << "d" >>,
    active_ingredients |-> << "i", "b", "u", ",", "d", "p", "h" >> ]

SavedBefore == { << >>, << SavedMo >>, << SavedMo, SavedAdp >> }

Init ==
  /\ brand_disambiguation = BRAND_DISAMBIGUATION_JSON
  /\ session_state = InitialSessionState
  /\ user_medications \in SavedBefore
  /\ analysis_calls = << >>
  /\ last_event = [ op |-> "start" ]
  /\ edits = 0
  /\ logins = 0
  /\ baseline_df = << >>
  /\ PYTHONHASHSEED = << >>
  /\ med_input = << >>
  /\ analysis = NotRun
  /\ save_request = << >>
  /\ save_result = NotSent
  /\ load_result = NotSent
  /\ NoOtherRequest

LogIn ==
  /\ ~ session_state.logged_in
  /\ \E response \in { "ok", "rejected", "unreachable" } :
       /\ response = "ok" => (logins = 0 \/ InputsUsed < MaxInputs)
       /\ Commit(Interaction(Done(do_login(session_state, user_medications, response)),
                          user_medications, NoInput),
              [ op |-> "do_login", response |-> response ])

EditField ==
  /\ session_state.logged_in
  /\ InputsUsed < MaxInputs
  /\ \E i \in DOMAIN session_state.medications, field \in { "name", "dosage", "frequency" } :
       \E text \in TypedText(field) :
         /\ text # FieldOf(session_state.medications[i], field)
         /\ Commit(Interaction(Done(session_state), user_medications,
                               [ NoInput EXCEPT !.edit = << i, field, text >> ]),
                   [ op |-> "text_input" ])

AddRow ==
  /\ session_state.logged_in
  /\ Len(session_state.medications) < MaxMeds
  /\ Commit(Interaction(Done(add_medication_row(session_state)), user_medications, NoInput),
            [ op |-> "add_medication_row" ])

\* the X button of a row is drawn only when the list has more than one row
DeleteRow ==
  /\ session_state.logged_in
  /\ Len(session_state.medications) > 1
  /\ \E i \in DOMAIN session_state.medications :
       Commit(Interaction(Done(delete_medication_row(session_state, i)),
                          user_medications, NoInput),
              [ op |-> "delete_medication_row" ])

Analyze ==
  /\ session_state.logged_in
  /\ CommitPass(Interaction(Done(session_state), user_medications,
                            [ NoInput EXCEPT !.analyze_button_clicked = TRUE ]),
                "analyze")

SelectDisambiguation ==
  /\ session_state.logged_in
  /\ session_state.current_analysis_state = "disambiguating"
  /\ \E idx \in DOMAIN session_state.meds_to_disambiguate :
       LET entry == session_state.meds_to_disambiguate[idx]
           options == DisambiguationOptions(entry)
       IN \E k \in DOMAIN options :
            /\ options[k] # Shown(options, entry.selected_disambiguation)
            /\ Commit(Interaction(Done(update_single_disambiguation_in_state(
                                         session_state, idx, options[k])),
                                  user_medications, NoInput),
                      [ op |-> "select_disambiguation" ])

ConfirmDisambiguations ==
  /\ session_state.logged_in
  /\ session_state.current_analysis_state = "disambiguating"
  /\ CommitConfirm(confirm_disambiguations(session_state), "confirm_disambiguations",
                   session_state.meds_to_disambiguate)

SelectCorrection ==
  /\ session_state.logged_in
  /\ session_state.current_analysis_state = "spell_checking"
  /\ \E idx \in DOMAIN session_state.unrecognized_meds_to_correct :
       LET entry == session_state.unrecognized_meds_to_correct[idx]
           options == CorrectionOptions(entry)
       IN \E k \in DOMAIN options :
            /\ options[k] # Shown(options, entry.selected_correction)
            /\ Commit(Interaction(Done(update_single_correction_in_state(
                                         session_state, idx, options[k])),
                                  user_medications, NoInput),
                      [ op |-> "select_correction" ])

ConfirmSpellChecks ==
  /\ session_state.logged_in
  /\ session_state.current_analysis_state = "spell_checking"
  /\ Len(session_state.meds_to_disambiguate) < MaxCandidates
  /\ CommitConfirm(confirm_spell_checks(session_state), "confirm_spell_checks",
                   session_state.unrecognized_meds_to_correct)

LogOut ==
  /\ session_state.logged_in
  /\ \E save_response \in { "ok", "unreachable" } :
       Commit(Interaction(Done(session_state), user_medications,
                          [ NoInput EXCEPT !.logout_clicked = TRUE,
                                           !.save_response = save_response ]),
              [ op |-> "logout", save_response |-> save_response ])

Next ==
  \/ LogIn
  \/ EditField
  \/ AddRow
  \/ DeleteRow
  \/ Analyze
  \/ SelectDisambiguation
  \/ ConfirmDisambiguations
  \/ SelectCorrection
  \/ ConfirmSpellChecks
  \/ LogOut

Spec == Init /\ [][Next]_vars

(***************************************************************************)
(* Properties of the resolution pass.  After an Analyze click whose pass   *)
(* ran, last_event.pass.before holds the entries as the loop found them    *)
(* and session_state.medications the entries as it left them.              *)
(***************************************************************************)
PassRan == last_event.op = "analyze" /\ last_event.pass.ran

C2_DisplayNameResolves ==
  PassRan =>
    \A i \in DOMAIN last_event.pass.before :
      LET typed == last_event.pass.before[i].name
          med == session_state.medications[i]
      IN (\E k \in DOMAIN AllOptions : Lower(AllOptions[k].display_name) = Lower(typed)) =>
           /\ med.status = "resolved"
           /\ \E k \in DOMAIN AllOptions :
                /\ Lower(AllOptions[k].display_name) = Lower(typed)
                /\ med.name = AllOptions[k].display_name
                /\ med.active_ingredients = AllOptions[k].active_ingredients
           /\ \A c \in DOMAIN session_state.meds_to_disambiguate :
                session_state.meds_to_disambiguate[c].index # i
           /\ \A c \in DOMAIN session_state.unrecognized_meds_to_correct :
                session_state.unrecognized_meds_to_correct[c].index # i

\* a pass has met a typed name, not in its canonical spelling, that is a display
\* name, a brand key with two formulations and a known name, and resolved it
C2_DisplayNameAndBrandKey ==
  /\ PassRan
  /\ \E i \in DOMAIN last_event.pass.before :
       LET typed == last_event.pass.before[i].name
       IN /\ \E k \in DOMAIN AllOptions :
               /\ Lower(AllOptions[k].display_name) = Lower(typed)
               /\ AllOptions[k].display_name # typed
               /\ session_state.medications[i].name = AllOptions[k].display_name
          /\ InBrandMap(Normalized(typed))
          /\ Len(BrandOptions(Normalized(typed))) >= 2
          /\ Normalized(typed) \in ALL_KNOWN_NAMES_FOR_SPELLCHECK_LOWER_SET
          /\ session_state.medications[i].status = "resolved"

\* what C3 asks of one interaction (unprimed: before it, primed: after it)
C3_Step ==
  /\ (last_event'.op = "analyze" /\ last_event'.pass.ran) =>
       /\ (\E i \in DOMAIN session_state'.medications :
             session_state'.medications[i].status = "needs_disambiguation")
            => session_state'.current_analysis_state = "disambiguating"
       /\ (/\ \A i \in DOMAIN session_state'.medications :
                session_state'.medications[i].status # "needs_disambiguation"
           /\ \E i \in DOMAIN session_state'.medications :
                session_state'.medications[i].status = "needs_spell_check")
            => session_state'.current_analysis_state = "spell_checking"
  /\ (/\ session_state'.current_analysis_state = "spell_checking"
      /\ session_state.current_analysis_state # "spell_checking") =>
       /\ last_event'.op = "analyze" /\ last_event'.pass.ran
       /\ \A i \in DOMAIN session_state'.medications :
            session_state'.medications[i].status # "needs_disambiguation"
  /\ (/\ session_state'.current_analysis_state = "displaying_results"
      /\ session_state.current_analysis_state # "displaying_results") =>
       /\ last_event'.op = "analyze" /\ last_event'.pass.ran
       /\ \A i \in DOMAIN session_state'.medications :
            session_state'.medications[i].status
              \notin { "needs_disambiguation", "needs_spell_check" }

\* C3: after a pass that leaves an entry needing disambiguation the analysis
\* state is disambiguating, whether or not other entries need a spell check;
\* the state becomes spell_checking only by a pass that leaves no entry needing
\* disambiguation, and displaying_results only by a pass that leaves no entry
\* needing disambiguation or a spell check.
C3_DisambiguationFirst == [][C3_Step]_vars

\* a pass has left one entry needing disambiguation and another needing a spell
\* check, and the state is disambiguating
C3_BothNeeded ==
  /\ PassRan
  /\ \E i \in DOMAIN session_state.medications :
       session_state.medications[i].status = "needs_disambiguation"
  /\ \E i \in DOMAIN session_state.medications :
       session_state.medications[i].status = "needs_spell_check"
  /\ session_state.current_analysis_state = "disambiguating"

(***************************************************************************)
(* Properties of what is sent to analysis and of the entries' statuses     *)
(***************************************************************************)
\* C4: every entry sent to the analysis endpoint (the complete entries, handed
\* to perform_analysis_and_display_alerts in state displaying_results) has
\* status resolved, after any sequence of interactions.
C4_OnlyResolvedSent ==
  \A c \in DOMAIN analysis_calls :
    \A k \in DOMAIN analysis_calls[c] : analysis_calls[c][k].status = "resolved"

\* C5: every entry whose status is resolved has a non-empty active_ingredients
\* sequence, the entries loaded at login included.
C5_ResolvedHasIngredients ==
  \A i \in DOMAIN session_state.medications :
    session_state.medications[i].status = "resolved"
      => session_state.medications[i].active_ingredients # << >>

\* what C6 asks of one interaction (unprimed: before it, primed: after it)
C6_Step ==
  last_event'.op = "text_input" =>
    \A i \in DOMAIN session_state.medications :
      (/\ i \in DOMAIN session_state'.medications
       /\ session_state.medications[i].status = "resolved"
       /\ session_state'.medications[i].name # session_state.medications[i].name)
        => /\ session_state'.medications[i].status = "pending"
           /\ session_state'.medications[i].active_ingredients = << >>

\* C6: editing the name of an entry whose status is resolved resets the entry
\* to pending and empties its active_ingredients.
C6_EditResets == [][C6_Step]_vars

(***************************************************************************)
(* Properties of the two confirmations                                     *)
(***************************************************************************)
\* what C7 asks of one interaction (unprimed: before it, primed: after it)
C7_Step ==
  last_event'.op = "confirm_disambiguations" =>
    /\ \A c \in DOMAIN session_state.meds_to_disambiguate :
         LET entry == session_state.meds_to_disambiguate[c]
         IN /\ entry.index \in DOMAIN session_state'.medications
            /\ IF entry.selected_disambiguation # entry.original_name
                 THEN /\ session_state'.medications[entry.index].status = "resolved"
                      /\ \E k \in DOMAIN entry.options :
                           /\ entry.options[k].display_name = entry.selected_disambiguation
                           /\ session_state'.medications[entry.index].name =
                                entry.options[k].display_name
                           /\ session_state'.medications[entry.index].active_ingredients =
                                entry.options[k].active_ingredients
                 ELSE /\ session_state'.medications[entry.index].status = "pending"
                      /\ session_state'.medications[entry.index].active_ingredients = << >>
    /\ session_state'.meds_to_disambiguate = << >>

\* C7: confirm_disambiguations leaves, for every candidate, the candidate's
\* entry resolved with the name and active_ingredients of the selected option
\* when the selection differs from the typed name, and pending with empty
\* active_ingredients when the selection is the typed name; and it leaves the
\* list of disambiguation candidates empty.
C7_ConfirmDisambiguations == [][C7_Step]_vars

\* what C8 asks of one interaction (unprimed: before it, primed: after it)
C8_Step ==
  (last_event'.op = "confirm_spell_checks" /\ ~ last_event'.raised) =>
    \A c \in DOMAIN session_state.unrecognized_meds_to_correct :
      LET entry == session_state.unrecognized_meds_to_correct[c]
      IN (/\ ~ HasDirectMatch(Normalized(entry.selected_correction))
          /\ InBrandMap(Normalized(entry.selected_correction))
          /\ Len(BrandOptions(Normalized(entry.selected_correction))) >= 2)
           => /\ session_state'.medications[entry.index].status = "needs_disambiguation"
              /\ \E d \in DOMAIN session_state'.meds_to_disambiguate :
                   session_state'.meds_to_disambiguate[d].index = entry.index
              /\ session_state'.current_analysis_state = "disambiguating"

\* C8: when confirm_spell_checks completes and a confirmed correction is a brand
\* key with two or more options (and no option's display name), the entry ends
\* with status needs_disambiguation, a disambiguation candidate for the entry
\* exists and the analysis state is disambiguating.
C8_CorrectionToBrand == [][C8_Step]_vars

\* C9: an entry whose correction the user declined carries the unknown sentinel
\* as its active_ingredients with status pending, and is never given status
\* resolved.
C9_DeclinedNeverResolved ==
  \A i \in DOMAIN session_state.medications :
    session_state.medications[i].active_ingredients = << UNKNOWN >>
      => session_state.medications[i].status = "pending"

\* the user has confirmed the original unrecognized name and the entry carries
\* the sentinel with status pending
C9_Declined ==
  /\ last_event.op = "confirm_spell_checks"
  /\ ~ last_event.raised
  /\ \E c \in DOMAIN last_event.candidates :
       /\ last_event.candidates[c].selected_correction = last_event.candidates[c].original_name
       /\ session_state.medications[last_event.candidates[c].index].active_ingredients
            = << UNKNOWN >>
       /\ session_state.medications[last_event.candidates[c].index].status = "pending"

\* C10: after a confirmation that completes and leaves no disambiguation
\* candidate, the script run that follows it runs the resolution pass again, so
\* that the interaction does not end in state checking_inputs.
C10_PassRunsAgain ==
  (/\ last_event.op \in { "confirm_disambiguations", "confirm_spell_checks" }
   /\ ~ last_event.raised
   /\ session_state.meds_to_disambiguate = << >>)
    => session_state.current_analysis_state # "checking_inputs"

(***************************************************************************)
(* The analysis backend.  src/Backend/agent.py: the interaction lookup, the *)
(* context text, the prompt and the provider call.  A text built from an    *)
(* f-string is the pair of its literal text and the values put into it; a   *)
(* text built by "\n".join is the sequence of the lines joined.  The        *)
(* pictographs of the literal texts are left out.                           *)
(***************************************************************************)
\* str.upper() on one character
UpperChar(c) == Translate(ascii_lowercase, ascii_uppercase, c)

IsCased(c) ==
  \E i \in DOMAIN ascii_lowercase : c = ascii_lowercase[i] \/ c = ascii_uppercase[i]

\* str.title(): a cased character is upper case after an uncased one (or at the
\* start) and lower case after a cased one
Title(s) ==
  [ i \in DOMAIN s |->
      IF i > 1 /\ IsCased(s[i - 1]) THEN LowerChar(s[i]) ELSE UpperChar(s[i]) ]

\* str.capitalize()
Capitalize(s) ==
  [ i \in DOMAIN s |-> IF i = 1 THEN UpperChar(s[i]) ELSE LowerChar(s[i]) ]

\* an f-string: the literal text with {} for each value, and the values
F(text, args) == [ text |-> text, args |-> args ]

NotAvailable == "Information not available"

unknown == << "u", "n", "k", "n", "o", "w", "n" >>

\* lines 42-45 for one row of baseline_df; the second disjunct is the reversed lookup
Matches_OneDirection(row, drug1, drug2) ==
  /\ Lower(row.min_drug_name) = Lower(drug1)
  /\ Lower(row.max_drug_name) = Lower(drug2)

Matches(row, drug1, drug2) ==
  \/ /\ Lower(row.min_drug_name) = Lower(drug1)
     /\ Lower(row.max_drug_name) = Lower(drug2)
  \/ /\ Lower(row.min_drug_name) = Lower(drug2)
     /\ Lower(row.max_drug_name) = Lower(drug1)

\* lines 41-46: baseline_df[mask], the matching rows in the order of the table
Selected(df, drug1, drug2) == SelectSeq(df, LAMBDA row : Matches(row, drug1, drug2))

\* the append without the test of the field
Optional_Always(value, line) == << line >>

\* a line that is appended unless the field is "Information not available"
Optional(value, line) == IF value # NotAvailable THEN << line >> ELSE << >>

\* lines 58-62
SeverityLine(severity) ==
  IF Lower(severity) = unknown
    THEN F("- Severity: Not formally determined", << >>)
    ELSE F("- Severity Level: **{}**", << severity >>)

\* lines 53-99: alert_lines for the row row.iloc[0]
AlertLines(row) ==
  << F("**Interaction Alert: {} + {}**", << row.min_drug_name, row.max_drug_name >>),
     SeverityLine(Capitalize(row.severity)) >>
  \o Optional(row.description, F("\nWhat this means: {}", << row.description >>))
  \o Optional(row.atc_group_context,
              F("\nThese drugs belong to the same treatment group: {}",
                << row.atc_group_context >>))
  \o << F("\n{} is a type of {}", << row.min_drug_name, row.min_drug_class >>),
        F("{} is a type of {}", << row.max_drug_name, row.max_drug_class >>) >>
  \o Optional(row.min_mechanism_of_action,
              F("\n{} works by: {}", << row.min_drug_name, row.min_mechanism_of_action >>))
  \o Optional(row.max_mechanism_of_action,
              F("{} works by: {}", << row.max_drug_name, row.max_mechanism_of_action >>))
  \o Optional(row.min_route_of_elimination,
              F("\n{} leaves the body through: {}",
                << row.min_drug_name, row.min_route_of_elimination >>))
  \o Optional(row.max_route_of_elimination,
              F("{} leaves the body through: {}",
                << row.max_drug_name, row.max_route_of_elimination >>))
  \o Optional(row.min_toxicity,
              F("\nToxicity concern for {}: {}", << row.min_drug_name, row.min_toxicity >>))
  \o Optional(row.max_toxicity,
              F("Toxicity concern for {}: {}", << row.max_drug_name, row.max_toxicity >>))
  \o Optional(row.effects_summary,
              F("\nReported Side Effects:\n{}", << row.effects_summary >>))
  \o << F("\nPlease consult your doctor or pharmacist before taking these medications together.",
          << >>) >>

\* line 49
NoKnownInteraction(drug1, drug2) ==
  << F("No known interaction found between {} and {} in the system.",
       << Title(drug1), Title(drug2) >>) >>

\* [d.strip() for d in l]
StripAll(l) == [ k \in DOMAIN l |-> Strip(l[k]) ]

\* lines 30-99
generate_geriatric_alert(df, drugs) ==
  LET drug_list == StripAll(Split(drugs, ","))
  IN IF Len(drug_list) # 2
       THEN << F("Please provide exactly two drug names, separated by a comma.", << >>) >>
       ELSE LET row == Selected(df, drug_list[1], drug_list[2])
            IN IF row = << >>
                 THEN NoKnownInteraction(drug_list[1], drug_list[2])
                 ELSE AlertLines(row[1])

\* the GEMINI_API_KEY of the environment: two credentials
GEMINI_API_KEY == << "k", ",", " ", "m" >>

API_KEYS == Split(GEMINI_API_KEY, ",")

\* what the provider does with one request: it answers with a status (and, with
\* status 200, a text), or requests.post raises
ProviderResponses ==
  { [ exception |-> FALSE, status_code |-> 200, text |-> "generated" ],
    [ exception |-> FALSE, status_code |-> 429, text |-> "" ],
    [ exception |-> TRUE, status_code |-> 0, text |-> "" ] }

\* a Python value that is a str or None
None == [ none |-> TRUE, text |-> "" ]

\* str(value)
Str(value) == IF value.none THEN "None" ELSE value.text

\* lines 130-142: the request made with API_KEYS[k], and the response that
\* requests.post gives to it
Request(prompt, k, response) ==
  [ prompt |-> prompt, x_goog_api_key |-> Strip(API_KEYS[k]), response |-> response ]

\* lines 140-144; responses[k] is what the provider does with the request made
\* with API_KEYS[k].  The result of the call is the requests it made, whether
\* it raised, and the value it returned if it did not; a loop that ends
\* without a return returns None.
\* the loop without the return of line 144 at the first status 200: every
\* credential is tried and the text of the last one that succeeded is returned
RECURSIVE TryKeys_PastSuccess(_, _, _, _)
TryKeys_PastSuccess(prompt, responses, k, requests) ==
  IF k > Len(API_KEYS)
    THEN [ requests |-> requests, raised |-> FALSE, value |-> None ]
  ELSE IF responses[k].exception
    THEN [ requests |-> Append(requests, Request(prompt, k, responses[k])), raised |-> TRUE,
           value |-> None ]
  ELSE IF responses[k].status_code = 200
          /\ TryKeys_PastSuccess(prompt, responses, k + 1, requests).value = None
    THEN [ TryKeys_PastSuccess(prompt, responses, k + 1,
                               Append(requests, Request(prompt, k, responses[k])))
             EXCEPT !.value = [ none |-> FALSE, text |-> responses[k].text ] ]
  ELSE TryKeys_PastSuccess(prompt, responses, k + 1,
                           Append(requests, Request(prompt, k, responses[k])))

RECURSIVE TryKeys(_, _, _, _)
TryKeys(prompt, responses, k, requests) ==
  IF k > Len(API_KEYS)
    THEN [ requests |-> requests, raised |-> FALSE, value |-> None ]
  ELSE IF responses[k].exception
    THEN [ requests |-> Append(requests, Request(prompt, k, responses[k])), raised |-> TRUE,
           value |-> None ]
  ELSE IF responses[k].status_code = 200
    THEN [ requests |-> Append(requests, Request(prompt, k, responses[k])), raised |-> FALSE,
           value |-> [ none |-> FALSE, text |-> responses[k].text ] ]
  ELSE TryKeys(prompt, responses, k + 1, Append(requests, Request(prompt, k, responses[k])))

call_gemini(prompt, responses) == TryKeys(prompt, responses, 1, << >>)

\* lines 109-123: the prompt, with the context put into it
Prompt(context) ==
  F("#Task ... #Step1 Use this information to get the medical interaction details in your response: {} #Step2 ... #Step3 ...",
    << context >>)

\* lines 101-125
analyze_interaction(df, drug1, drug2, responses) ==
  call_gemini(
    Prompt(generate_geriatric_alert(
             df, Lower(Strip(drug1)) \o << ",", " " >> \o Lower(Strip(drug2)))),
    responses)

(***************************************************************************)
(* src/Backend/main.py, POST /analyze_medications (lines 51-119)            *)
(***************************************************************************)
\* x in l, for a list l
In(x, l) == \E k \in DOMAIN l : l[k] = x

\* [ai.lower() for ai in l]
LowerAll(l) == [ k \in DOMAIN l |-> Lower(l[k]) ]

\* lines 59-60 without the test of line 60
Occurrences_KeepUnknown(med) == LowerAll(med.active_ingredients)

\* lines 59-60 for one medication
Occurrences(med) == LowerAll(SelectSeq(med.active_ingredients, LAMBDA ai : ai # UNKNOWN))

\* lines 58-61
RECURSIVE entered_active_ingredients(_)
entered_active_ingredients(medications) ==
  IF medications = << >> THEN << >>
  ELSE Occurrences(Head(medications)) \o entered_active_ingredients(Tail(medications))

\* itertools.combinations(l, 2): the pairs (l[i], l[j]), i < j, in lexicographic
\* order of (i, j)
RECURSIVE combinations(_, _, _)
combinations(l, i, j) ==
  IF i >= Len(l) THEN << >>
  ELSE IF j > Len(l) THEN combinations(l, i + 1, i + 2)
  ELSE << << l[i], l[j] >> >> \o combinations(l, i, j + 1)

\* lines 70-74 with the unordered test of line 73 left out
Classify_OrderedOnly(acc, pair) ==
  IF pair[1] = pair[2]
    THEN [ acc EXCEPT !.duplicate_pairs = Append(@, pair) ]
  ELSE IF ~ In(pair, acc.interaction_pairs)
    THEN [ acc EXCEPT !.interaction_pairs = Append(@, pair) ]
  ELSE acc

\* lines 70-74: one round of the loop over pairs
Classify(acc, pair) ==
  IF pair[1] = pair[2]
    THEN [ acc EXCEPT !.duplicate_pairs = Append(@, pair) ]
  ELSE IF ~ In(pair, acc.interaction_pairs)
          /\ ~ In(<< pair[2], pair[1] >>, acc.interaction_pairs)
    THEN [ acc EXCEPT !.interaction_pairs = Append(@, pair) ]
  ELSE acc

\* lines 67-74
RECURSIVE ClassifyFrom(_, _, _)
ClassifyFrom(acc, pairs, k) ==
  IF k > Len(pairs) THEN acc ELSE ClassifyFrom(Classify(acc, pairs[k]), pairs, k + 1)

\* the test of line 84 without the lower() of the medication's ingredients
Has_CaseSensitive(med, ingredient) == In(ingredient, med.active_ingredients)

\* lines 82-85, 98-101, 102-105: the names of the medications that have the
\* ingredient among their lowered active ingredients, in the order of the request
Has(med, ingredient) == In(ingredient, LowerAll(med.active_ingredients))

MedsWith(medications, ingredient) ==
  LET with == SelectSeq(medications, LAMBDA m : Has(m, ingredient))
  IN [ k \in DOMAIN with |-> with[k].name ]

\* list(set(l)): the distinct elements of l in the order in which this
\* interpreter iterates them, which follows the hashes of the strings
ListOfSet(l, order) == SelectSeq(order, LAMBDA x : In(x, l))

DuplicateText ==
  "You have entered medications with the same active ingredient:'{}'. Please review your medications to avoid potential overdosing, dangerous side effects, and/or unecessary medication."

\* lines 82-89: the alert of one duplicate pair
DuplicateAlert(medications, dupe, order) ==
  [ drugs_involved |-> ListOfSet(MedsWith(medications, dupe[1]), order),
    alert_message |-> F(DuplicateText, << Title(dupe[1]) >>) ]

\* lines 81-89; "made" records, for each alert appended, the loop variable it
\* was appended for
RECURSIVE DuplicateAlertsFrom(_, _, _, _, _)
DuplicateAlertsFrom(acc, medications, duplicate_pairs, order, k) ==
  IF k > Len(duplicate_pairs) THEN acc
  ELSE DuplicateAlertsFrom(
         [ acc EXCEPT
             !.alerts = Append(@, DuplicateAlert(medications, duplicate_pairs[k], order)),
             !.made = Append(@, [ loop |-> "dupe", pair |-> duplicate_pairs[k] ]) ],
         medications, duplicate_pairs, order, k + 1)

\* lines 98-117 with the two ingredients as drugs_involved, as analyze_all_pairs
\* of agent.py has them
InteractionAlert_Ingredients(medications, inter, llm_alert) ==
  [ drugs_involved |-> << inter[1], inter[2] >>,
    alert_message |-> F("{}", << Str(llm_alert) >>) ]

\* lines 98-117: the alert of one interaction pair, given the value
\* analyze_interaction returned
InteractionAlert(medications, inter, llm_alert) ==
  [ drugs_involved |->
      << Join(<< " ", "/", " " >>, MedsWith(medications, inter[1])),
         Join(<< " ", "/", " " >>, MedsWith(medications, inter[2])) >>,
    alert_message |-> F("{}", << Str(llm_alert) >>) ]

\* lines 93-117: one round of the loop over interaction_pairs, given the result
\* of the call of analyze_interaction; an exception of the call leaves the loop
\* and the handler
Round(acc, medications, inter, call) ==
  IF call.raised
    THEN [ acc EXCEPT !.requests = @ \o call.requests, !.raised = TRUE ]
    ELSE [ acc EXCEPT
             !.requests = @ \o call.requests,
             !.alerts = Append(@, InteractionAlert(medications, inter, call.value)),
             !.made = Append(@, [ loop |-> "inter", pair |-> inter ]) ]

\* lines 92-117; answers[k] is what the provider does with the requests of the
\* k-th call of analyze_interaction
RECURSIVE InteractionAlertsFrom(_, _, _, _, _, _)
InteractionAlertsFrom(acc, medications, df, interaction_pairs, answers, k) ==
  IF k > Len(interaction_pairs) \/ acc.raised THEN acc
  ELSE InteractionAlertsFrom(
         Round(acc, medications, interaction_pairs[k],
               analyze_interaction(df, interaction_pairs[k][1], interaction_pairs[k][2],
                                   answers[k])),
         medications, df, interaction_pairs, answers, k + 1)

\* lines 119: the response of the endpoint; an exception that leaves the handler
\* is answered by the framework with status 500
Response(acc) ==
  IF acc.raised THEN [ status_code |-> 500, alerts |-> << >> ]
  ELSE [ status_code |-> 200, alerts |-> acc.alerts ]

\* lines 78-119 with the loop of lines 92-117 before the loop of lines 81-89
Alerts_InteractionsFirst(medications, df, classified, order, answers) ==
  DuplicateAlertsFrom(
    InteractionAlertsFrom([ alerts |-> << >>, made |-> << >>, requests |-> << >>,
                            raised |-> FALSE ],
                          medications, df, classified.interaction_pairs, answers, 1),
    medications, classified.duplicate_pairs, order, 1)

\* lines 78-119, given the two lists of lines 67-74
Alerts(medications, df, classified, order, answers) ==
  InteractionAlertsFrom(
    DuplicateAlertsFrom([ alerts |-> << >>, made |-> << >>, requests |-> << >>,
                          raised |-> FALSE ],
                        medications, classified.duplicate_pairs, order, 1),
    medications, df, classified.interaction_pairs, answers, 1)

\* lines 64-74
Classified(occurrences) ==
  ClassifyFrom([ interaction_pairs |-> << >>, duplicate_pairs |-> << >> ],
               combinations(occurrences, 1, 2), 1)

\* the locals of the handler when it ends, and its response
Ended(occurrences, classified, acc) ==
  [ ran |-> TRUE,
    entered_active_ingredients |-> occurrences,
    interaction_pairs |-> classified.interaction_pairs,
    duplicate_pairs |-> classified.duplicate_pairs,
    alerts |-> acc.alerts,
    made |-> acc.made,
    requests |-> acc.requests,
    response |-> Response(acc) ]

\* lines 51-119
analyze_medications(medications, df, order, answers) ==
  LET occurrences == entered_active_ingredients(medications)
      classified == Classified(occurrences)
  IN Ended(occurrences, classified, Alerts(medications, df, classified, order, answers))

(***************************************************************************)
(* Requests to the analysis backend, the knowledge table and the provider   *)
(***************************************************************************)
MaxEntries == 3  \* medications in one request

Ibu == << "I", "b", "u" >>

\* the active_ingredients of one medication of a request
IngredientLists == { << Ibu >>, << ibu, dph >>, << nap >>, << UNKNOWN >> }

EntryNames == { << "A", "d" >>, << "M", "o" >> }

Entries ==
  [ name : EntryNames, dosage : { << "m", "g" >> }, frequency : { << "d" >> },
    active_ingredients : IngredientLists ]

\* the lists of at most n elements of S
ListsOf(S, n) == UNION { [ 1 .. k -> S ] : k \in 0 .. n }

\* the rows the table is made of: a record for ibu and dph under the names the
\* table spells them with, and a second record for the same two drugs, the
\* other way round
IbuDph ==
  [ min_drug_name |-> Ibu, max_drug_name |-> << "D", "p", "h" >>,
    severity |-> << "m", "a", "j", "o", "r" >>,
    description |-> "description", atc_group_context |-> NotAvailable,
    min_drug_class |-> "class 1", max_drug_class |-> "class 2",
    min_mechanism_of_action |-> "mechanism 1", max_mechanism_of_action |-> NotAvailable,
    min_route_of_elimination |-> NotAvailable, max_route_of_elimination |-> "route 2",
    min_toxicity |-> NotAvailable, max_toxicity |-> "toxicity 2",
    effects_summary |-> "effects" ]

DphIbu ==
  [ min_drug_name |-> dph, max_drug_name |-> ibu,
    severity |-> << "U", "n", "k", "n", "o", "w", "n" >>,
    description |-> NotAvailable, atc_group_context |-> "group",
    min_drug_class |-> "class 2", max_drug_class |-> "class 1",
    min_mechanism_of_action |-> NotAvailable, max_mechanism_of_action |-> "mechanism 1",
    min_route_of_elimination |-> "route 2", max_route_of_elimination |-> NotAvailable,
    min_toxicity |-> "toxicity 2", max_toxicity |-> NotAvailable,
    effects_summary |-> NotAvailable ]

\* the tables: no record, one record, and the two records with the one that
\* names the drugs the other way round first
Tables == { << >>, << IbuDph >>, << DphIbu, IbuDph >> }

\* the orders in which a set of names can be iterated
Orders(S) ==
  { order \in [ 1 .. Cardinality(S) -> S ] :
      \A i, j \in DOMAIN order : i # j => order[i] # order[j] }

\* a response that ends the loop of call_gemini
Final(response) == response.exception \/ response.status_code = 200

\* what the provider does with the requests of one call of call_gemini, one
\* response for each request the call makes
CallAnswers ==
  { responses \in ListsOf(ProviderResponses, Len(API_KEYS)) :
      /\ responses # << >>
      /\ \A k \in 1 .. (Len(responses) - 1) : ~ Final(responses[k])
      /\ Len(responses) < Len(API_KEYS) => Final(responses[Len(responses)]) }

\* the text the provider generates for the request made with API_KEYS[k]
Generated == << "generated for the first key", "generated for the second key" >>

\* the response to the request made with API_KEYS[k]
Answered(response, k) ==
  IF response.status_code = 200 THEN [ response EXCEPT !.text = Generated[k] ] ELSE response

\* a response for every request of the call, also for those it does not make
Padded(responses) ==
  [ k \in 1 .. Len(API_KEYS) |->
      Answered(IF k <= Len(responses) THEN responses[k] ELSE responses[Len(responses)], k) ]

PaddedAll(answers) == [ k \in DOMAIN answers |-> Padded(answers[k]) ]

\* the calls of analyze_interaction a request leads to when none raises
Calls(medications) == Len(Classified(entered_active_ingredients(medications)).interaction_pairs)

(***************************************************************************)
(* The analysis request: the handler is applied once to a request, a table  *)
(* and an iteration order drawn at the start                                *)
(***************************************************************************)
AnalysisInit ==
  /\ brand_disambiguation = BRAND_DISAMBIGUATION_JSON
  /\ session_state = InitialSessionState
  /\ user_medications = << >>
  /\ analysis_calls = << >>
  /\ last_event = [ op |-> "start" ]
  /\ edits = 0
  /\ logins = 0
  /\ baseline_df \in Tables
  /\ PYTHONHASHSEED \in Orders(EntryNames)
  /\ med_input \in [ medications : ListsOf(Entries, MaxEntries) ]
  /\ analysis = NotRun
  /\ save_request = << >>
  /\ save_result = NotSent
  /\ load_result = NotSent
  /\ NoOtherRequest

\* the call ends in an exception
Raises(responses) == responses[Len(responses)].exception

\* the provider's answers to the calls of one request; no call follows a call
\* that raised, so that what stands for the answers to later calls is fixed
AnswersTo(n) ==
  { answers \in [ 1 .. n -> CallAnswers ] :
      \A k \in 2 .. n : Raises(answers[k - 1]) => answers[k] = answers[k - 1] }

AnalyzeMedications ==
  /\ ~ analysis.ran
  /\ \E answers \in AnswersTo(Calls(med_input.medications)) :
       analysis' = analyze_medications(med_input.medications, baseline_df, PYTHONHASHSEED,
                                       PaddedAll(answers))
  /\ UNCHANGED << frontend_vars, baseline_df, PYTHONHASHSEED, med_input, persistence_vars,
                  variant_vars, concurrency_vars >>

AnalysisNext == AnalyzeMedications

AnalysisSpec == AnalysisInit /\ [][AnalysisNext]_vars

(***************************************************************************)
(* The persistence endpoints of src/Backend/main.py: one save request, drawn *)
(* at the start, is followed by one load, through GET /load_medications or  *)
(* through POST /login.  user_medications holds the rows of the one         *)
(* registered account.                                                      *)
(***************************************************************************)
MaxSaved == 2  \* medications in one save request

\* the username of the registered account, and one that is not registered
Users == { "u" }

Usernames == { "u", "x" }

\* the active_ingredients of one medication of a save request: none, one, two,
\* one that is the empty string, one with a comma in its name
SavedIngredientLists ==
  { << >>, << ibu >>, << ibu, dph >>, << << >> >>, << << "e", ",", "c" >> >> }

SavedEntries ==
  [ name : EntryNames, dosage : { << "m", "g" >> }, frequency : { << "d" >> },
    active_ingredients : SavedIngredientLists ]

PersistenceInit ==
  /\ brand_disambiguation = BRAND_DISAMBIGUATION_JSON
  /\ session_state = InitialSessionState
  /\ user_medications \in SavedBefore
  /\ analysis_calls = << >>
  /\ last_event = [ op |-> "start" ]
  /\ edits = 0
  /\ logins = 0
  /\ baseline_df = << >>
  /\ PYTHONHASHSEED = << >>
  /\ med_input = << >>
  /\ analysis = NotRun
  /\ save_request \in [ username : Usernames, medications : ListsOf(SavedEntries, MaxSaved) ]
  /\ save_result = NotSent
  /\ load_result = NotSent
  /\ NoOtherRequest

\* POST /save_medications (lines 215-243): 404 for a user that does not exist
SaveMedications ==
  /\ ~ save_result.sent
  /\ IF save_request.username \in Users
       THEN /\ user_medications' = save_user_medications(save_request.medications)
            /\ save_result' = [ sent |-> TRUE, status_code |-> 200 ]
       ELSE /\ user_medications' = user_medications
            /\ save_result' = [ sent |-> TRUE, status_code |-> 404 ]
  /\ UNCHANGED << brand_disambiguation, session_state, analysis_calls, last_event, edits,
                  logins, backend_vars, save_request, load_result, variant_vars,
                  concurrency_vars >>

\* the response of a load for the user of the save request
Loaded(endpoint, failure, medications) ==
  IF save_request.username \in Users
    THEN [ sent |-> TRUE, endpoint |-> endpoint, status_code |-> 200,
           medications |-> medications ]
    ELSE [ sent |-> TRUE, endpoint |-> endpoint, status_code |-> failure,
           medications |-> << >> ]

\* GET /load_medications/{username} (lines 249-263)
LoadMedications ==
  /\ save_result.sent
  /\ ~ load_result.sent
  /\ load_result' = Loaded("load_medications", 404, load_user_medications(user_medications))
  /\ UNCHANGED << frontend_vars, backend_vars, save_request, save_result, variant_vars,
                  concurrency_vars >>

\* POST /login (lines 185-208) with the password of the account
Login ==
  /\ save_result.sent
  /\ ~ load_result.sent
  /\ load_result' = Loaded("login", 401, login(user_medications))
  /\ UNCHANGED << frontend_vars, backend_vars, save_request, save_result, variant_vars,
                  concurrency_vars >>

PersistenceNext == SaveMedications \/ LoadMedications \/ Login

PersistenceSpec == PersistenceInit /\ [][PersistenceNext]_vars

(***************************************************************************)
(* Properties of the pairing of analyze_medications.  When the handler has  *)
(* run, analysis holds its locals: the occurrences, the two lists of pairs, *)
(* the alerts appended and, for each of them, the pair it was appended for. *)
(***************************************************************************)
\* the two ingredients of a pair, without their order
Unordered(pair) == { pair[1], pair[2] }

\* the 2-combinations of the occurrences of the request
PairsOf(occurrences) == combinations(occurrences, 1, 2)

\* the k-th 2-combination is the first one of its unordered pair of distinct
\* ingredients
FirstOccurrence(pairs, k) ==
  /\ pairs[k][1] # pairs[k][2]
  /\ \A h \in 1 .. (k - 1) : Unordered(pairs[h]) # Unordered(pairs[k])

\* the 2-combinations from the k-th on that are first occurrences, in their order
RECURSIVE FirstOccurrences(_, _)
FirstOccurrences(pairs, k) ==
  IF k > Len(pairs) THEN << >>
  ELSE (IF FirstOccurrence(pairs, k) THEN << pairs[k] >> ELSE << >>)
       \o FirstOccurrences(pairs, k + 1)

\* the alerts appended by the loop over duplicate_pairs or interaction_pairs
MadeBy(loop) == { k \in DOMAIN analysis.made : analysis.made[k].loop = loop }

\* C11: the list of interaction pairs holds each unordered pair of ingredients
\* at most once, in the order of the pair's first occurrence among the
\* 2-combinations of the occurrences, and no two interaction alerts are about
\* the same unordered pair.
C11_UnorderedPairsOnce ==
  analysis.ran =>
    /\ \A i, j \in DOMAIN analysis.interaction_pairs :
         i # j => Unordered(analysis.interaction_pairs[i])
                    # Unordered(analysis.interaction_pairs[j])
    /\ analysis.interaction_pairs
         = FirstOccurrences(PairsOf(analysis.entered_active_ingredients), 1)
    /\ \A i, j \in MadeBy("inter") :
         i # j => Unordered(analysis.made[i].pair) # Unordered(analysis.made[j].pair)

\* a request in which an unordered pair occurs in both orders, answered with
\* an alert for it
C11_BothOrders ==
  /\ analysis.ran
  /\ analysis.response.status_code = 200
  /\ \E a, b \in DOMAIN analysis.entered_active_ingredients :
       \E c \in DOMAIN analysis.entered_active_ingredients :
         /\ a < b /\ b < c
         /\ analysis.entered_active_ingredients[a] = analysis.entered_active_ingredients[c]
         /\ analysis.entered_active_ingredients[a] # analysis.entered_active_ingredients[b]
  /\ MadeBy("inter") # {}

\* the elements of a list
Elements(l) == { l[k] : k \in DOMAIN l }

\* the alerts of the response that were appended for a pair of the given
\* unordered pair by the given loop
Returned_For(loop, ingredients) ==
  { k \in DOMAIN analysis.response.alerts :
      /\ analysis.made[k].loop = loop
      /\ Unordered(analysis.made[k].pair) = ingredients }

\* C12: every unordered pair of distinct lowered ingredients among the
\* occurrences that are not UNKNOWN has an interaction alert in the response;
\* two occurrences of the same ingredient are a duplicate pair, and no
\* interaction pair has the same ingredient on both sides.
C12_DistinctPairsInteract ==
  analysis.ran =>
    /\ \A a, b \in Elements(analysis.entered_active_ingredients) :
         a # b => Returned_For("inter", { a, b }) # {}
    /\ \A i, j \in DOMAIN analysis.entered_active_ingredients :
         (i < j /\ analysis.entered_active_ingredients[i] = analysis.entered_active_ingredients[j])
           => /\ In(<< analysis.entered_active_ingredients[i],
                       analysis.entered_active_ingredients[j] >>, analysis.duplicate_pairs)
              /\ Returned_For("inter", { analysis.entered_active_ingredients[i] }) = {}
    /\ \A k \in DOMAIN analysis.interaction_pairs :
         analysis.interaction_pairs[k][1] # analysis.interaction_pairs[k][2]

(***************************************************************************)
(* Properties of the duplicate alerts                                       *)
(***************************************************************************)
\* the occurrences of an ingredient in the request
OccurrencesOf(ingredient) ==
  { i \in DOMAIN analysis.entered_active_ingredients :
      analysis.entered_active_ingredients[i] = ingredient }

\* the alerts appended by the loop over duplicate_pairs for an ingredient
DuplicateAlertsAbout(ingredient) ==
  { k \in MadeBy("dupe") : analysis.made[k].pair[1] = ingredient }

\* C13: an ingredient that occurs two or more times gets exactly one duplicate
\* alert, an ingredient that occurs once gets none.
C13_OneDuplicateAlertPerIngredient ==
  analysis.ran =>
    \A ingredient \in Elements(analysis.entered_active_ingredients) :
      Cardinality(DuplicateAlertsAbout(ingredient))
        = IF Cardinality(OccurrencesOf(ingredient)) >= 2 THEN 1 ELSE 0

\* the names of the medications of the request that have the ingredient,
\* whatever the case of its letters
NamesWith(medications, ingredient) ==
  { medications[k].name : k \in
      { h \in DOMAIN medications :
          \E i \in DOMAIN medications[h].active_ingredients :
            Lower(medications[h].active_ingredients[i]) = ingredient } }

\* the request with its medications in another order
Permuted(medications, q) == [ k \in DOMAIN medications |-> medications[q[k]] ]

\* C14: the drugs_involved of the duplicate alert about an ingredient holds
\* exactly the names of the medications that have the ingredient (letter case
\* aside), each once, and the same names for every order of the medications.
C14_DuplicateNames ==
  analysis.ran =>
    \A k \in MadeBy("dupe") :
      /\ Elements(analysis.alerts[k].drugs_involved)
           = NamesWith(med_input.medications, analysis.made[k].pair[1])
      /\ Len(analysis.alerts[k].drugs_involved)
           = Cardinality(Elements(analysis.alerts[k].drugs_involved))
      /\ \A q \in Orders(DOMAIN med_input.medications) :
           Elements(DuplicateAlert(Permuted(med_input.medications, q),
                                   analysis.made[k].pair, PYTHONHASHSEED).drugs_involved)
             = Elements(analysis.alerts[k].drugs_involved)

\* a duplicate alert that names two medications, of which one spells the
\* ingredient in another case, one of them twice in the request
C14_TwoNamesThreeEntries ==
  /\ analysis.ran
  /\ Len(med_input.medications) = 3
  /\ \E k \in MadeBy("dupe") :
       /\ Cardinality(Elements(analysis.alerts[k].drugs_involved)) = 2
       /\ Cardinality(OccurrencesOf(analysis.made[k].pair[1])) = 3
       /\ \E h \in DOMAIN med_input.medications :
            /\ In(Ibu, med_input.medications[h].active_ingredients)
            /\ analysis.made[k].pair[1] = ibu

\* C15: the drugs_involved of every duplicate alert is sorted by name.
C15_DuplicateNamesSorted ==
  analysis.ran =>
    \A k \in MadeBy("dupe") :
      \A i, j \in DOMAIN analysis.alerts[k].drugs_involved :
        i < j => StrLess(analysis.alerts[k].drugs_involved[i],
                         analysis.alerts[k].drugs_involved[j])

(***************************************************************************)
(* Properties of the unknown sentinel and of the interaction alerts         *)
(***************************************************************************)
\* the places of the request that hold an ingredient other than "UNKNOWN"
KnownPlaces ==
  { place \in (DOMAIN med_input.medications) \X (1 .. 2) :
      /\ place[2] \in DOMAIN med_input.medications[place[1]].active_ingredients
      /\ med_input.medications[place[1]].active_ingredients[place[2]] # UNKNOWN }

KnownIngredients ==
  { Lower(med_input.medications[place[1]].active_ingredients[place[2]]) :
      place \in KnownPlaces }

\* every medication of the request has "UNKNOWN" as its only ingredient
OnlyUnknown ==
  \A h \in DOMAIN med_input.medications :
    med_input.medications[h].active_ingredients = << UNKNOWN >>

\* the prompt that analyze_interaction sends for a pair
PromptFor(pair) ==
  Prompt(generate_geriatric_alert(
           baseline_df, Lower(Strip(pair[1])) \o << ",", " " >> \o Lower(Strip(pair[2]))))

\* C16: an ingredient equal to "UNKNOWN" is no occurrence: the occurrences are
\* the other ingredients of the request, both sides of every duplicate pair
\* and interaction pair are among them, every request to the provider is for
\* an interaction pair, and a request whose medications have UNKNOWN as their
\* only ingredient is answered with no alert and without a provider call.
C16_UnknownNotPaired ==
  analysis.ran =>
    /\ Len(analysis.entered_active_ingredients) = Cardinality(KnownPlaces)
    /\ \A pair \in Elements(analysis.duplicate_pairs) \cup Elements(analysis.interaction_pairs) :
         Unordered(pair) \subseteq KnownIngredients
    /\ \A k \in DOMAIN analysis.requests :
         \E pair \in Elements(analysis.interaction_pairs) :
           analysis.requests[k].prompt = PromptFor(pair)
    /\ OnlyUnknown =>
         /\ analysis.alerts = << >>
         /\ analysis.requests = << >>
         /\ analysis.response = [ status_code |-> 200, alerts |-> << >> ]

\* two medications whose only ingredient is UNKNOWN have been analysed
C16_TwoUnknownEntries ==
  /\ analysis.ran
  /\ Len(med_input.medications) = 2
  /\ OnlyUnknown

\* an alert built by the loop over duplicate_pairs, by its text
IsDuplicateAlert(alert) == alert.alert_message.text = DuplicateText

\* the pairs for which the alerts of the given loop were appended, in the
\* order of the alerts
RECURSIVE PairsMade(_, _)
PairsMade(loop, k) ==
  IF k > Len(analysis.made) THEN << >>
  ELSE (IF analysis.made[k].loop = loop THEN << analysis.made[k].pair >> ELSE << >>)
       \o PairsMade(loop, k + 1)

\* C17: in the alerts of the response every duplicate alert comes before every
\* interaction alert, and the interaction alerts are those of interaction_pairs
\* in the order of that list.
C17_DuplicatesFirst ==
  (analysis.ran /\ analysis.response.status_code = 200) =>
    /\ \A i, j \in DOMAIN analysis.response.alerts :
         (IsDuplicateAlert(analysis.response.alerts[i])
            /\ ~ IsDuplicateAlert(analysis.response.alerts[j])) => i < j
    /\ \A k \in DOMAIN analysis.response.alerts :
         IsDuplicateAlert(analysis.response.alerts[k]) <=> analysis.made[k].loop = "dupe"
    /\ PairsMade("inter", 1) = analysis.interaction_pairs

\* a response with a duplicate alert and two or more interaction alerts
C17_DuplicateAndInteractions ==
  /\ analysis.ran
  /\ analysis.response.status_code = 200
  /\ \E k \in DOMAIN analysis.response.alerts : IsDuplicateAlert(analysis.response.alerts[k])
  /\ Cardinality({ k \in DOMAIN analysis.response.alerts :
                     ~ IsDuplicateAlert(analysis.response.alerts[k]) }) >= 2

\* the names joined by " / " into one side of drugs_involved
NamesIn(side) == StripAll(Split(side, "/"))

\* the medications of the request that have the name and the ingredient
EntriesWith(name, ingredient) ==
  { h \in DOMAIN med_input.medications :
      /\ med_input.medications[h].name = name
      /\ \E i \in DOMAIN med_input.medications[h].active_ingredients :
           Lower(med_input.medications[h].active_ingredients[i]) = ingredient }

\* the side holds each name as many times as medications with the ingredient
\* have it, and nothing else
SideNames(side, ingredient) ==
  /\ Elements(NamesIn(side)) \subseteq EntryNames
  /\ \A name \in EntryNames :
       Cardinality({ i \in DOMAIN NamesIn(side) : NamesIn(side)[i] = name })
         = Cardinality(EntriesWith(name, ingredient))

\* C18: the drugs_involved of the interaction alert of a pair (A, B) has two
\* elements, the names of all medications with A and the names of all
\* medications with B, each side joined with " / ", and a side is the
\* medications' names, not the ingredient.
C18_InteractionNames ==
  analysis.ran =>
    \A k \in MadeBy("inter") :
      /\ Len(analysis.alerts[k].drugs_involved) = 2
      /\ \A side \in 1 .. 2 :
           /\ SideNames(analysis.alerts[k].drugs_involved[side], analysis.made[k].pair[side])
           /\ analysis.alerts[k].drugs_involved[side] # analysis.made[k].pair[side]

\* an interaction alert with two medications on one side and one on the other
C18_SharedIngredient ==
  /\ analysis.ran
  /\ analysis.response.status_code = 200
  /\ \E k \in MadeBy("inter") :
       /\ Len(NamesIn(analysis.response.alerts[k].drugs_involved[1])) = 2
       /\ Elements(NamesIn(analysis.response.alerts[k].drugs_involved[1])) = EntryNames
       /\ Len(NamesIn(analysis.response.alerts[k].drugs_involved[2])) = 1

(***************************************************************************)
(* Properties of the interaction lookup                                     *)
(***************************************************************************)
\* the string analyze_interaction passes to generate_geriatric_alert
Drugs(drug1, drug2) == drug1 \o << ",", " " >> \o drug2

\* the two lookups select the same record, or both select none, and the
\* context of a record found does not depend on the order of the names
SameRecord(drug1, drug2) ==
  /\ Selected(baseline_df, drug1, drug2) = << >> <=> Selected(baseline_df, drug2, drug1) = << >>
  /\ Selected(baseline_df, drug1, drug2) # << >> =>
       /\ Selected(baseline_df, drug1, drug2)[1] = Selected(baseline_df, drug2, drug1)[1]
       /\ generate_geriatric_alert(baseline_df, Drugs(drug1, drug2))
            = AlertLines(Selected(baseline_df, drug1, drug2)[1])
       /\ generate_geriatric_alert(baseline_df, Drugs(drug2, drug1))
            = generate_geriatric_alert(baseline_df, Drugs(drug1, drug2))
  /\ Selected(baseline_df, drug1, drug2) = << >> =>
       /\ generate_geriatric_alert(baseline_df, Drugs(drug1, drug2))
            = NoKnownInteraction(drug1, drug2)
       /\ generate_geriatric_alert(baseline_df, Drugs(drug2, drug1))
            = NoKnownInteraction(drug2, drug1)

\* C19: for the ingredients A and B of an analysed request and the table of
\* the model, the lookup of (A, B) and the lookup of (B, A) in
\* generate_geriatric_alert select the same record, or both find none.
C19_LookupSymmetric ==
  analysis.ran =>
    \A drug1, drug2 \in Elements(analysis.entered_active_ingredients) :
      drug1 # drug2 => SameRecord(drug1, drug2)

\* a lookup made for a pair that the first row of a table of two rows names
\* the other way round
C19_ReversedRecordFound ==
  /\ analysis.ran
  /\ Len(baseline_df) = 2
  /\ \E k \in DOMAIN analysis.interaction_pairs :
       /\ Lower(baseline_df[1].min_drug_name) = analysis.interaction_pairs[k][2]
       /\ Lower(baseline_df[1].max_drug_name) = analysis.interaction_pairs[k][1]
       /\ \E r \in DOMAIN analysis.requests :
            analysis.requests[r].prompt = Prompt(AlertLines(baseline_df[1]))

\* C20: an interaction pair without a record has the "No known interaction
\* found" text as its context, the provider is called with the prompt made of
\* it, and the response has one alert for the pair, with a message that is
\* not empty.
C20_MissStillAlerts ==
  analysis.ran =>
    \A k \in DOMAIN analysis.interaction_pairs :
      Selected(baseline_df, analysis.interaction_pairs[k][1],
               analysis.interaction_pairs[k][2]) = << >> =>
        /\ PromptFor(analysis.interaction_pairs[k])
             = Prompt(NoKnownInteraction(analysis.interaction_pairs[k][1],
                                         analysis.interaction_pairs[k][2]))
        /\ \E r \in DOMAIN analysis.requests :
             analysis.requests[r].prompt = PromptFor(analysis.interaction_pairs[k])
        /\ Cardinality(Returned_For("inter", Unordered(analysis.interaction_pairs[k]))) = 1
        /\ \A a \in Returned_For("inter", Unordered(analysis.interaction_pairs[k])) :
             analysis.response.alerts[a].alert_message.args # << "" >>

(***************************************************************************)
(* Properties of the context text and of the provider call                  *)
(***************************************************************************)
\* the contexts put into the prompts of the requests made
Contexts == { analysis.requests[r].prompt.args[1] : r \in DOMAIN analysis.requests }

\* an optional section of the context of a record: the line is there if and
\* only if the field is not "Information not available"
Section(context, value, line) == In(line, context) <=> value # NotAvailable

\* the sections of the context built for the record
Sections(row, context) ==
  /\ Section(context, row.description, F("\nWhat this means: {}", << row.description >>))
  /\ Section(context, row.atc_group_context,
             F("\nThese drugs belong to the same treatment group: {}",
               << row.atc_group_context >>))
  /\ Section(context, row.min_mechanism_of_action,
             F("\n{} works by: {}", << row.min_drug_name, row.min_mechanism_of_action >>))
  /\ Section(context, row.max_mechanism_of_action,
             F("{} works by: {}", << row.max_drug_name, row.max_mechanism_of_action >>))
  /\ Section(context, row.min_route_of_elimination,
             F("\n{} leaves the body through: {}",
               << row.min_drug_name, row.min_route_of_elimination >>))
  /\ Section(context, row.max_route_of_elimination,
             F("{} leaves the body through: {}",
               << row.max_drug_name, row.max_route_of_elimination >>))
  /\ Section(context, row.min_toxicity,
             F("\nToxicity concern for {}: {}", << row.min_drug_name, row.min_toxicity >>))
  /\ Section(context, row.max_toxicity,
             F("Toxicity concern for {}: {}", << row.max_drug_name, row.max_toxicity >>))
  /\ Section(context, row.effects_summary,
             F("\nReported Side Effects:\n{}", << row.effects_summary >>))
  /\ In(F("\n{} is a type of {}", << row.min_drug_name, row.min_drug_class >>), context)
  /\ In(F("{} is a type of {}", << row.max_drug_name, row.max_drug_class >>), context)
  /\ In(F("- Severity: Not formally determined", << >>), context)
       <=> Lower(row.severity) = unknown
  /\ In(F("- Severity Level: **{}**", << Capitalize(row.severity) >>), context)
       <=> Lower(row.severity) # unknown

\* the context is the one of a found record: its first line is the heading
IsAlert(context) == context[1].text = "**Interaction Alert: {} + {}**"

\* C21: the context built for a found record has each optional section
\* (description, treatment group, each drug's mechanism of action, route of
\* elimination and toxicity, side effects) if and only if the field is not
\* "Information not available", always has the two drug-class lines, and has
\* the severity line 'Not formally determined' exactly when the severity of
\* the record is unknown.
C21_ContextSections ==
  analysis.ran =>
    \A context \in Contexts :
      IsAlert(context) =>
        \E r \in DOMAIN baseline_df :
          /\ context[1].args = << baseline_df[r].min_drug_name, baseline_df[r].max_drug_name >>
          /\ Sections(baseline_df[r], context)

\* a context built for a record of unknown severity that has some fields and
\* lacks others
C21_UnknownSeverityRecord ==
  /\ analysis.ran
  /\ \E context \in Contexts :
       /\ IsAlert(context)
       /\ \E r \in DOMAIN baseline_df :
            /\ context[1].args = << baseline_df[r].min_drug_name, baseline_df[r].max_drug_name >>
            /\ Lower(baseline_df[r].severity) = unknown
            /\ baseline_df[r].description = NotAvailable
            /\ baseline_df[r].min_toxicity # NotAvailable
            /\ baseline_df[r].max_toxicity = NotAvailable

\* the requests made with the prompt, in the order in which they were made
RequestsOf(prompt) == SelectSeq(analysis.requests, LAMBDA q : q.prompt = prompt)

\* the response is a success: requests.post returned, with status 200
Success(response) == ~ response.exception /\ response.status_code = 200

\* the interaction alerts appended for the pair with the text as their message
AlertsWith(pair, text) ==
  { a \in MadeBy("inter") :
      /\ analysis.made[a].pair = pair
      /\ analysis.alerts[a].alert_message = F("{}", << text >>) }

\* the requests of the call made for the pair: one for each credential from the
\* first one on, in the order of API_KEYS, none after a success, and the text
\* of a success is what the call returned
MadeInOrder(pair, made) ==
  /\ Len(made) <= Len(API_KEYS)
  /\ \A i \in DOMAIN made :
       /\ made[i].x_goog_api_key = Strip(API_KEYS[i])
       /\ i < Len(made) => ~ Success(made[i].response)
       /\ Success(made[i].response) => AlertsWith(pair, made[i].response.text) # { }

InListOrder(pair) == MadeInOrder(pair, RequestsOf(PromptFor(pair)))

\* C22: one call of call_gemini makes its requests with the credentials in the
\* order of API_KEYS, at most one for each credential and so at most as many
\* as there are credentials, and the first success ends the call: no request
\* follows it and its text is the value returned.
C22_CredentialsInOrder ==
  analysis.ran =>
    /\ \A k \in DOMAIN analysis.interaction_pairs : InListOrder(analysis.interaction_pairs[k])
    /\ { analysis.requests[r].prompt : r \in DOMAIN analysis.requests }
         \subseteq { PromptFor(analysis.interaction_pairs[k]) :
                       k \in DOMAIN analysis.interaction_pairs }

\* one call that the first credential answered with success, while a second
\* credential is configured, and one call that the second credential answered
\* with success after the first was refused
C22_FirstAndSecondKey ==
  /\ analysis.ran
  /\ Len(API_KEYS) = 2
  /\ \E i, j \in DOMAIN analysis.interaction_pairs :
       /\ Len(RequestsOf(PromptFor(analysis.interaction_pairs[i]))) = 1
       /\ AlertsWith(analysis.interaction_pairs[i], Generated[1]) # { }
       /\ Len(RequestsOf(PromptFor(analysis.interaction_pairs[j]))) = 2
       /\ AlertsWith(analysis.interaction_pairs[j], Generated[2]) # { }

\* the interaction alerts appended for the pair: the calls made for it that
\* returned a value
AlertsFor(pair) == { a \in MadeBy("inter") : analysis.made[a].pair = pair }

\* every credential was used for the pair and none answered with success, none
\* with a network failure
AllRefused(made) ==
  /\ Len(made) = Len(API_KEYS)
  /\ \A i \in DOMAIN made : ~ made[i].response.exception /\ made[i].response.status_code # 200

\* C23: a call of call_gemini in which every credential got a non-success
\* response does not return a value: no alert is made of what it returned.
C23_AllRefusedFails ==
  analysis.ran =>
    \A k \in DOMAIN analysis.interaction_pairs :
      AllRefused(RequestsOf(PromptFor(analysis.interaction_pairs[k])))
        => AlertsFor(analysis.interaction_pairs[k]) = { }

\* a request with the credential raised and a later credential is configured
NetworkFailure(made, i) == made[i].response.exception /\ i < Len(API_KEYS)

\* after a network failure of a request the call goes on to the next credential
Rotates(made) == \A i \in DOMAIN made : NetworkFailure(made, i) => i < Len(made)

\* C24: when the request made with a credential fails at the network level and
\* a later credential is configured, call_gemini makes the request with the
\* next credential.
C24_NetworkFailureRotates ==
  analysis.ran =>
    \A k \in DOMAIN analysis.interaction_pairs :
      Rotates(RequestsOf(PromptFor(analysis.interaction_pairs[k])))

\* the call made for the pair failed: its last request was not a success
Failed(made) == made = << >> \/ ~ Success(made[Len(made)].response)

\* the alert of the response for the pair: an error message if the call
\* failed, and else the alert made of the text of the success
Isolated(pair, made, alert) ==
  IF Failed(made)
    THEN alert.alert_message.text = "Error analyzing: {}"
    ELSE alert = InteractionAlert(med_input.medications, pair,
                                  [ none |-> FALSE, text |-> made[Len(made)].response.text ])

\* C25: the request is answered with the duplicate alerts and one alert for
\* every interaction pair, whatever the provider does: the alert of a pair
\* whose call failed has an 'Error analyzing: ...' message, and the alert of
\* every other pair is the one made of the text generated for it.
C25_FailureIsolated ==
  analysis.ran =>
    /\ analysis.response.status_code = 200
    /\ Len(analysis.response.alerts)
         = Len(analysis.duplicate_pairs) + Len(analysis.interaction_pairs)
    /\ \A k \in DOMAIN analysis.interaction_pairs :
         /\ Len(analysis.response.alerts) >= Len(analysis.duplicate_pairs) + k
         /\ Isolated(analysis.interaction_pairs[k],
                     RequestsOf(PromptFor(analysis.interaction_pairs[k])),
                     analysis.response.alerts[Len(analysis.duplicate_pairs) + k])

(***************************************************************************)
(* Properties of the persistence endpoints                                  *)
(***************************************************************************)
\* a save that completed, followed by a load of the same user
SavedAndLoaded ==
  /\ save_result.sent
  /\ save_result.status_code = 200
  /\ load_result.sent

\* C26: after save_medications(u, L) completed, a load for u (by
\* load_medications or by login) answers with a list that has the name,
\* dosage, frequency and active_ingredients of L, entry by entry.
C26_RoundTrip ==
  SavedAndLoaded =>
    /\ load_result.status_code = 200
    /\ load_result.medications = save_request.medications

(***************************************************************************)
(* Properties of the Analyze click and of the resolution pass               *)
(***************************************************************************)
\* no entry of the list is complete (name, dosage and frequency entered)
NoneComplete(medications) == \A i \in DOMAIN medications : ~ Complete(medications[i])

\* the entries keep their status and their active_ingredients
Untouched(before, after) ==
  \A i \in DOMAIN before :
    /\ i \in DOMAIN after
    /\ after[i].status = before[i].status
    /\ after[i].active_ingredients = before[i].active_ingredients

\* what C27 asks of one interaction (unprimed: before it, primed: after it)
C27_Step ==
  (last_event'.op = "analyze" /\ NoneComplete(session_state.medications)) =>
    /\ session_state'.current_analysis_state = "initial"
    /\ ~ last_event'.pass.ran
    /\ analysis_calls' = << >>
    /\ Untouched(session_state.medications, session_state'.medications)

\* C27: a click on Analyze while no entry has a name, a dosage and a frequency
\* leaves the analysis state at initial, runs no resolution pass, makes no
\* call of the backend, and changes no entry's status or active_ingredients.
C27_NothingToAnalyze == [][C27_Step]_vars

\* the active_ingredients of entry i when the reset step of the click is over:
\* at the start of the resolution pass if it ran, else when the interaction ends
AfterReset(event, medications, i) ==
  IF event.pass.ran
    THEN event.pass.before[i].active_ingredients
    ELSE medications[i].active_ingredients

\* what C30 asks of one interaction (unprimed: before it, primed: after it)
C30_Step ==
  last_event'.op = "analyze" =>
    \A i \in DOMAIN session_state.medications :
      (/\ session_state.medications[i].status = "resolved"
       /\ session_state.medications[i].active_ingredients # << >>)
        => AfterReset(last_event', session_state'.medications, i)
             = session_state.medications[i].active_ingredients

\* C30: an entry that is resolved with active_ingredients when Analyze is
\* clicked still has these active_ingredients when the reset step of the
\* click is over.
C30_ResolvedKeepsIngredients == [][C30_Step]_vars

(***************************************************************************)
(* The resolution pass on its own: the block of lines 491-593 is applied    *)
(* once to a list of entries drawn at the start, in state checking_inputs,  *)
(* with the directory as shipped or with a brand that has no formulation.   *)
(***************************************************************************)
\* a brand key mapped to an empty list of options
NoFormulation == [ key |-> << "Z", "q" >>, options |-> << >> ]

Directories ==
  { BRAND_DISAMBIGUATION_JSON, BRAND_DISAMBIGUATION_JSON \o << NoFormulation >> }

\* the names of the entries: what the user types, and the brand without
\* formulation
PassNames == TypedNames \cup { NoFormulation.key }

\* an entry as the session holds it: not resolved yet, or resolved with its
\* ingredients (its name may have been edited since)
PassEntries ==
  { [ name |-> name, dosage |-> << "m", "g" >>, frequency |-> << "d" >>,
      active_ingredients |-> << >>, status |-> "pending" ] : name \in PassNames }
    \cup
  { [ name |-> name, dosage |-> << "m", "g" >>, frequency |-> << "d" >>,
      active_ingredients |-> << ibu >>, status |-> "resolved" ] : name \in PassNames }

ResolutionInit ==
  /\ brand_disambiguation \in Directories
  /\ \E medications \in ListsOf(PassEntries, MaxMeds) :
       /\ medications # << >>
       /\ session_state = [ InitialSessionState EXCEPT
                              !.logged_in = TRUE,
                              !.medications = medications,
                              !.current_analysis_state = "checking_inputs" ]
  /\ user_medications = << >>
  /\ analysis_calls = << >>
  /\ last_event = [ op |-> "start" ]
  /\ edits = 0
  /\ logins = 0
  /\ baseline_df = << >>
  /\ PYTHONHASHSEED = << >>
  /\ med_input = << >>
  /\ analysis = NotRun
  /\ save_request = << >>
  /\ save_result = NotSent
  /\ load_result = NotSent
  /\ NoOtherRequest

\* lines 430-433 and 491-593
ResolvePass ==
  /\ session_state.current_analysis_state = "checking_inputs"
  /\ CommitPass(CheckingInputs(AllEnteredMeds([ ss |-> session_state, db |-> user_medications,
                                                calls |-> << >>, pass |-> NoPass,
                                                all_entered_meds |-> {}, rerun |-> FALSE ])),
                "checking_inputs")

ResolutionNext == ResolvePass

ResolutionSpec == ResolutionInit /\ [][ResolutionNext]_vars

\* the pass of the last interaction ran over the entries last_event.pass.before
Passed == last_event.op = "checking_inputs" /\ last_event.pass.ran

\* the candidates the pass made for the entry
CandidatesOf(i) ==
  { c \in DOMAIN session_state.meds_to_disambiguate :
      session_state.meds_to_disambiguate[c].index = i }
    \cup
  { c \in DOMAIN session_state.unrecognized_meds_to_correct :
      session_state.unrecognized_meds_to_correct[c].index = i }

\* C28: with a brand key mapped to an empty option list in the directory, the
\* pass ends with every entry that has a name resolved, needing
\* disambiguation or needing correction, and an entry it does not resolve has
\* a candidate that prompts the user.
C28_NoSilentPending ==
  Passed =>
    \A i \in DOMAIN last_event.pass.before :
      Strip(last_event.pass.before[i].name) # << >> =>
        /\ session_state.medications[i].status
             \in { "resolved", "needs_disambiguation", "needs_spell_check" }
        /\ session_state.medications[i].status # "resolved" => CandidatesOf(i) # { }

RefersTo(candidate, status) ==
  /\ candidate.index \in DOMAIN session_state.medications
  /\ session_state.medications[candidate.index].status = status

\* C31: after every user action, each disambiguation candidate refers to an
\* entry whose status is needs_disambiguation and each correction candidate to
\* an entry whose status is needs_spell_check.
C31_CandidateStatus ==
  /\ \A d \in DOMAIN session_state.meds_to_disambiguate :
       RefersTo(session_state.meds_to_disambiguate[d], "needs_disambiguation")
  /\ \A c \in DOMAIN session_state.unrecognized_meds_to_correct :
       RefersTo(session_state.unrecognized_meds_to_correct[c], "needs_spell_check")

(***************************************************************************)
(* Properties of the pairing within one entry                               *)
(***************************************************************************)
\* the medications of the request with exactly two occurrences, of two
\* distinct ingredients: the combination products
CombinationProducts ==
  { h \in DOMAIN med_input.medications :
      /\ Len(Occurrences(med_input.medications[h])) = 2
      /\ Occurrences(med_input.medications[h])[1] # Occurrences(med_input.medications[h])[2] }

\* C32: a combination product whose active ingredients are two distinct
\* ingredients A and B yields exactly one interaction alert for {A, B}, also
\* when it is the only entry of the request, and both sides of that alert's
\* drugs_involved name the entry.
C32_PairedWithinEntry ==
  analysis.ran =>
    \A h \in CombinationProducts :
      LET pair == Occurrences(med_input.medications[h])
      IN /\ Cardinality(Returned_For("inter", Unordered(pair))) = 1
         /\ \A k \in Returned_For("inter", Unordered(pair)) :
              \A side \in 1 .. 2 :
                In(med_input.medications[h].name,
                   NamesIn(analysis.response.alerts[k].drugs_involved[side]))

(***************************************************************************)
(* Requests whose entries repeat an ingredient: within one entry, in two    *)
(* entries of one name, in two entries of different names.  The handler of  *)
(* src/Backend/main.py is applied once to such a request.                   *)
(***************************************************************************)
MaxRepeated == 2  \* medications in one such request

\* the active_ingredients of one medication: an ingredient once, the same
\* ingredient twice (also in two spellings), a combination product in both
\* orders
RepeatedIngredientLists ==
  { << ibu >>, << ibu, ibu >>, << Ibu, ibu >>, << ibu, dph >>, << dph, ibu >> }

RepeatedEntries ==
  [ name : EntryNames, dosage : { << "m", "g" >> }, frequency : { << "d" >> },
    active_ingredients : RepeatedIngredientLists ]

WithinEntryInit ==
  /\ brand_disambiguation = BRAND_DISAMBIGUATION_JSON
  /\ session_state = InitialSessionState
  /\ user_medications = << >>
  /\ analysis_calls = << >>
  /\ last_event = [ op |-> "start" ]
  /\ edits = 0
  /\ logins = 0
  /\ baseline_df = << IbuDph >>
  /\ PYTHONHASHSEED \in Orders(EntryNames)
  /\ med_input \in [ medications : ListsOf(RepeatedEntries, MaxRepeated) ]
  /\ analysis = NotRun
  /\ save_request = << >>
  /\ save_result = NotSent
  /\ load_result = NotSent
  /\ NoOtherRequest

WithinEntrySpec == WithinEntryInit /\ [][AnalysisNext]_vars

\* the medications of the request that have the ingredient
EntriesHaving(ingredient) ==
  { h \in DOMAIN med_input.medications : Has(med_input.medications[h], ingredient) }

\* C33: a duplicate alert is raised only for an ingredient that two different
\* entries of the request share, and its drugs_involved names at least two
\* distinct entries.
C33_DuplicateAcrossEntries ==
  analysis.ran =>
    \A k \in MadeBy("dupe") :
      /\ Cardinality(EntriesHaving(analysis.made[k].pair[1])) >= 2
      /\ Cardinality(Elements(analysis.alerts[k].drugs_involved)) >= 2

(***************************************************************************)
(* src/backend/main.py, the simplified local backend: POST                  *)
(* /analyze_medications (lines 117-194)                                     *)
(***************************************************************************)
\* lines 138-144: one round of the loop over pairs; only the pair in this order
\* is looked for in interaction_pairs
LocalClassify(acc, pair) ==
  IF pair[1] = pair[2]
    THEN [ acc EXCEPT !.duplicate_pairs = Append(@, pair) ]
  ELSE IF ~ In(pair, acc.interaction_pairs)
    THEN [ acc EXCEPT !.interaction_pairs = Append(@, pair) ]
  ELSE acc

RECURSIVE LocalClassifyFrom(_, _, _)
LocalClassifyFrom(acc, pairs, k) ==
  IF k > Len(pairs) THEN acc
  ELSE LocalClassifyFrom(LocalClassify(acc, pairs[k]), pairs, k + 1)

LocalDuplicateText ==
  "You have entered medications with the same active ingredient:'{}'. Please review your medications to avoid potential overdosing, dangerous side effects, and/or uncessary medication."

\* lines 153-162
RECURSIVE LocalDuplicateAlertsFrom(_, _, _, _, _)
LocalDuplicateAlertsFrom(acc, medications, duplicate_pairs, order, k) ==
  IF k > Len(duplicate_pairs) THEN acc
  ELSE LocalDuplicateAlertsFrom(
         [ acc EXCEPT
             !.alerts = Append(@, [ drugs_involved |->
                                      ListOfSet(MedsWith(medications, duplicate_pairs[k][1]),
                                                order),
                                    alert_message |->
                                      F(LocalDuplicateText, << duplicate_pairs[k][1] >>) ]),
             !.made = Append(@, [ loop |-> "dupe", pair |-> duplicate_pairs[k] ]) ],
         medications, duplicate_pairs, order, k + 1)

\* line 168: llm_alert
Placeholder == [ none |-> FALSE, text |-> "Placeholder for actual LLM Alert" ]

\* lines 165-192
RECURSIVE LocalInteractionAlertsFrom(_, _, _, _)
LocalInteractionAlertsFrom(acc, medications, interaction_pairs, k) ==
  IF k > Len(interaction_pairs) THEN acc
  ELSE LocalInteractionAlertsFrom(
         [ acc EXCEPT
             !.alerts = Append(@, InteractionAlert(medications, interaction_pairs[k],
                                                   Placeholder)),
             !.made = Append(@, [ loop |-> "inter", pair |-> interaction_pairs[k] ]) ],
         medications, interaction_pairs, k + 1)

\* lines 117-194
local_analyze_medications(medications, order) ==
  LET occurrences == entered_active_ingredients(medications)
      classified == LocalClassifyFrom([ interaction_pairs |-> << >>, duplicate_pairs |-> << >> ],
                                      combinations(occurrences, 1, 2), 1)
      acc == LocalInteractionAlertsFrom(
               LocalDuplicateAlertsFrom([ alerts |-> << >>, made |-> << >> ], medications,
                                        classified.duplicate_pairs, order, 1),
               medications, classified.interaction_pairs, 1)
  IN [ ran |-> TRUE,
       entered_active_ingredients |-> occurrences,
       interaction_pairs |-> classified.interaction_pairs,
       duplicate_pairs |-> classified.duplicate_pairs,
       made |-> acc.made,
       response |-> [ status_code |-> 200, alerts |-> acc.alerts ] ]

\* the request is sent to the local backend
LocalAnalyzeMedications ==
  /\ ~ local_analysis.ran
  /\ local_analysis' = local_analyze_medications(med_input.medications, PYTHONHASHSEED)
  /\ UNCHANGED << frontend_vars, backend_vars, persistence_vars, all_pairs, concurrency_vars >>

LocalNext == LocalAnalyzeMedications

LocalSpec == WithinEntryInit /\ [][LocalNext]_vars

\* the interaction alerts of the local backend's response
LocalInteractionAlerts ==
  { k \in DOMAIN local_analysis.made : local_analysis.made[k].loop = "inter" }

\* C34: the local backend returns at most one interaction alert for an
\* unordered pair of ingredients, whatever the order in which the occurrences
\* present the pair: for the occurrences [A, B, A] one alert for {A, B}.
C34_LocalUnorderedPairsOnce ==
  local_analysis.ran =>
    \A i, j \in LocalInteractionAlerts :
      i # j => Unordered(local_analysis.made[i].pair) # Unordered(local_analysis.made[j].pair)

(***************************************************************************)
(* src/Backend/agent.py, analyze_all_pairs (lines 146-166)                  *)
(***************************************************************************)
\* str(e) of the exception requests.post raised (a sample text)
ExceptionText == "connection failed"

\* lines 152-165 with the except branch reporting the pair like the try branch
PairResult_ErrorAsInteraction(drug1, drug2, call) ==
  [ pair |-> F("{} + {}", << drug1, drug2 >>),
    alert_type |-> "Interaction",
    drugs_involved |-> << drug1, drug2 >>,
    alert_message |-> call.value ]

\* lines 152-165: the result appended for one pair, given the result of the
\* call of analyze_interaction
PairResult(drug1, drug2, call) ==
  IF call.raised
    THEN [ pair |-> F("{} + {}", << drug1, drug2 >>),
           alert_type |-> "Error",
           drugs_involved |-> << drug1, drug2 >>,
           alert_message |-> F("Error analyzing: {}", << ExceptionText >>) ]
    ELSE [ pair |-> F("{} + {}", << drug1, drug2 >>),
           alert_type |-> "Interaction",
           drugs_involved |-> << drug1, drug2 >>,
           alert_message |-> call.value ]

\* lines 148-165: "for i in range(len(meds))" and "for j in range(i + 1,
\* len(meds))", i and j counted from 1; answers[k] is what the provider does
\* with the requests of the k-th call of analyze_interaction
RECURSIVE AllPairsFrom(_, _, _, _, _, _)
AllPairsFrom(results, df, meds, answers, i, j) ==
  IF i > Len(meds) THEN results
  ELSE IF j > Len(meds) THEN AllPairsFrom(results, df, meds, answers, i + 1, i + 2)
  ELSE AllPairsFrom(
         Append(results,
                PairResult(meds[i], meds[j],
                           analyze_interaction(df, meds[i], meds[j],
                                               answers[Len(results) + 1]))),
         df, meds, answers, i, j + 1)

analyze_all_pairs(df, meds, answers) == AllPairsFrom(<< >>, df, meds, answers, 1, 2)

MaxNames == 3  \* names in the list given to analyze_all_pairs

\* the names a caller passes
DrugNames == { ibu, dph, nap }

AllPairsInit ==
  /\ brand_disambiguation = BRAND_DISAMBIGUATION_JSON
  /\ session_state = InitialSessionState
  /\ user_medications = << >>
  /\ analysis_calls = << >>
  /\ last_event = [ op |-> "start" ]
  /\ edits = 0
  /\ logins = 0
  /\ baseline_df \in Tables
  /\ PYTHONHASHSEED = << >>
  /\ med_input = << >>
  /\ analysis = NotRun
  /\ save_request = << >>
  /\ save_result = NotSent
  /\ load_result = NotSent
  /\ NoOtherRequest

\* one call of analyze_all_pairs; the provider answers every call of
\* analyze_interaction, also those that follow one that raised
AnalyzeAllPairs ==
  /\ ~ all_pairs.ran
  /\ \E meds \in ListsOf(DrugNames, MaxNames) :
       \E answers \in [ 1 .. ((Len(meds) * (Len(meds) - 1)) \div 2) -> CallAnswers ] :
         all_pairs' = [ ran |-> TRUE, meds |-> meds, answers |-> answers,
                        results |-> analyze_all_pairs(baseline_df, meds, PaddedAll(answers)) ]
  /\ UNCHANGED << frontend_vars, backend_vars, persistence_vars, local_analysis,
                  concurrency_vars >>

AllPairsNext == AnalyzeAllPairs

AllPairsSpec == AllPairsInit /\ [][AllPairsNext]_vars

\* the place, counted from 1, of the index pair (i, j), i < j, among the index
\* pairs of a list of n elements in lexicographic order
Rank(i, j, n) == (((i - 1) * (2 * n - i)) \div 2) + (j - i)

\* C35: for a list of n names analyze_all_pairs returns n(n-1)/2 results, the
\* result of the index pair (i, j), i < j, at the pair's place in lexicographic
\* order; the result of a pair whose analyze_interaction raises has alert_type
\* Error and the message 'Error analyzing: ...', and the result of every other
\* pair has alert_type Interaction and the value the call returned.
C35_AllPairsIsolated ==
  all_pairs.ran =>
    LET n == Len(all_pairs.meds)
    IN /\ Len(all_pairs.results) = (n * (n - 1)) \div 2
       /\ \A i, j \in 1 .. n :
            i < j =>
              LET result == all_pairs.results[Rank(i, j, n)]
                  answer == all_pairs.answers[Rank(i, j, n)]
              IN /\ result.drugs_involved = << all_pairs.meds[i], all_pairs.meds[j] >>
                 /\ result.pair = F("{} + {}", << all_pairs.meds[i], all_pairs.meds[j] >>)
                 /\ IF Raises(answer)
                      THEN /\ result.alert_type = "Error"
                           /\ result.alert_message.text = "Error analyzing: {}"
                      ELSE /\ result.alert_type = "Interaction"
                           /\ result.alert_message
                                = IF Success(answer[Len(answer)])
                                    THEN [ none |-> FALSE, text |-> Generated[Len(answer)] ]
                                    ELSE None

\* three names, the call for the first pair raises and the calls for the two
\* pairs after it are answered
C35_FailureThenSuccess ==
  /\ all_pairs.ran
  /\ Len(all_pairs.meds) = 3
  /\ Raises(all_pairs.answers[1])
  /\ all_pairs.results[1].alert_type = "Error"
  /\ \A k \in 2 .. 3 :
       /\ Success(all_pairs.answers[k][Len(all_pairs.answers[k])])
       /\ all_pairs.results[k].alert_type = "Interaction"

(***************************************************************************)
(* Properties of the prompting states                                       *)
(***************************************************************************)
\* C36: whenever the analysis state is disambiguating the list of
\* disambiguation candidates is not empty, and whenever it is spell_checking
\* the list of correction candidates is not empty.
C36_PromptHasCandidate ==
  /\ session_state.current_analysis_state = "disambiguating"
       => session_state.meds_to_disambiguate # << >>
  /\ session_state.current_analysis_state = "spell_checking"
       => session_state.unrecognized_meds_to_correct # << >>

\* a confirmation of corrections that completed has left the state
\* disambiguating, with a disambiguation candidate it created
C36_PromptAfterConfirmation ==
  /\ last_event.op = "confirm_spell_checks"
  /\ ~ last_event.raised
  /\ session_state.current_analysis_state = "disambiguating"
  /\ session_state.meds_to_disambiguate # << >>

\* the index a candidate stores is an index of the list of medications
IndexValid(candidate) == candidate.index \in DOMAIN session_state.medications

\* C37: on the main page the entry index stored in every disambiguation or
\* correction candidate is a valid index into the current list of medications,
\* and no confirmation indexes past the end of the list.
C37_CandidateIndexValid ==
  /\ session_state.logged_in =>
       /\ \A d \in DOMAIN session_state.meds_to_disambiguate :
            IndexValid(session_state.meds_to_disambiguate[d])
       /\ \A c \in DOMAIN session_state.unrecognized_meds_to_correct :
            IndexValid(session_state.unrecognized_meds_to_correct[c])
  /\ last_event.op \in { "confirm_disambiguations", "confirm_spell_checks" }
       => ~ last_event.raised

\* C38: the analysis session ends at logout: when a login has succeeded, the
\* analysis state is initial, both candidate lists are empty and no analysis
\* request has been sent.
C38_LoginStartsInitial ==
  (last_event.op = "do_login" /\ last_event.response = "ok") =>
    /\ session_state.current_analysis_state = "initial"
    /\ session_state.meds_to_disambiguate = << >>
    /\ session_state.unrecognized_meds_to_correct = << >>
    /\ analysis_calls = << >>

(***************************************************************************)
(* Properties of the list of medications on the main page                   *)
(***************************************************************************)
\* the list "after" is the list "before" without its i-th element
Without(before, after, i) ==
  /\ Len(after) = Len(before) - 1
  /\ \A k \in DOMAIN after : after[k] = IF k < i THEN before[k] ELSE before[k + 1]

\* C39: on the main page the list of medications has at least one row;
\* delete_medication_row on a list of one row leaves the list, the candidate
\* lists and the analysis state as they are, and on a longer list it removes
\* exactly the requested row, empties both candidate lists and sets the
\* analysis state to initial, which is also the state the interaction ends in.
C39_AtLeastOneRow ==
  session_state.logged_in =>
    /\ Len(session_state.medications) >= 1
    /\ \A i \in DOMAIN session_state.medications :
         LET deleted == delete_medication_row(session_state, i)
         IN IF Len(session_state.medications) = 1
              THEN /\ deleted.medications = session_state.medications
                   /\ deleted.meds_to_disambiguate = session_state.meds_to_disambiguate
                   /\ deleted.unrecognized_meds_to_correct
                        = session_state.unrecognized_meds_to_correct
                   /\ deleted.current_analysis_state = session_state.current_analysis_state
              ELSE /\ Without(session_state.medications, deleted.medications, i)
                   /\ deleted.meds_to_disambiguate = << >>
                   /\ deleted.unrecognized_meds_to_correct = << >>
                   /\ deleted.current_analysis_state = "initial"
    /\ last_event.op = "delete_medication_row"
         => /\ session_state.meds_to_disambiguate = << >>
            /\ session_state.unrecognized_meds_to_correct = << >>
            /\ session_state.current_analysis_state = "initial"

\* a row has been deleted from a list of two rows, and the list is now a list
\* of one row, which has a name
C39_DeletedToOneRow ==
  /\ session_state.logged_in
  /\ last_event.op = "delete_medication_row"
  /\ Len(session_state.medications) = 1
  /\ Strip(session_state.medications[1].name) # << >>

(***************************************************************************)
(* Concurrent requests to the persistence endpoints of src/Backend/main.py. *)
(* The endpoints are plain functions, which the framework runs in worker    *)
(* threads, each request with a Session of its own (autocommit and          *)
(* autoflush off): what a Session has added is seen by the other requests   *)
(* from its next commit on.  One step is one commit of a request, or the    *)
(* queries of a request between two commits.  user_medications holds the    *)
(* committed rows of the one account, in the order of their insertion.      *)
(***************************************************************************)
MaxSaves == 2  \* save requests in progress at the same time

\* the list the account holds before the requests (the claim's L1)
SavedFirst == << SavedMo, SavedAdp >>

\* the medications of a save request: a name the table of Medication has, and
\* one it does not have yet
ConcurrentEntries ==
  [ name : { << "M", "o" >>, << "N", "w" >> }, dosage : { << "m", "g" >> },
    frequency : { << "d" >> }, active_ingredients : { << ibu >> } ]

\* the Session of a request that has not run yet
NewSession(medications) ==
  [ medications |-> medications, pc |-> "start", next |-> 1, pending |-> << >> ]

ConcurrentInit ==
  /\ brand_disambiguation = BRAND_DISAMBIGUATION_JSON
  /\ session_state = InitialSessionState
  /\ user_medications = SavedFirst
  /\ analysis_calls = << >>
  /\ last_event = [ op |-> "start" ]
  /\ edits = 0
  /\ logins = 0
  /\ baseline_df = << >>
  /\ PYTHONHASHSEED = << >>
  /\ med_input = << >>
  /\ analysis = NotRun
  /\ save_request = << >>
  /\ save_result = NotSent
  /\ load_result = NotSent
  /\ local_analysis = NotRun
  /\ all_pairs = NotRun
  /\ medication = { SavedFirst[k].name : k \in DOMAIN SavedFirst }
  /\ \E requests \in ListsOf(ListsOf(ConcurrentEntries, MaxSaved) \ { << >> }, MaxSaves) :
       /\ requests # << >>
       /\ db_sessions = [ r \in DOMAIN requests |-> NewSession(requests[r]) ]

\* the UserMedication row lines 232-238 build for a medication of the request
UserMedicationRow(med) == save_user_medications(<< med >>)[1]

\* lines 217-223: the user's rows are deleted and the deletion is committed
SaveDelete ==
  \E r \in DOMAIN db_sessions :
    /\ db_sessions[r].pc = "start"
    /\ user_medications' = << >>
    /\ db_sessions' = [ db_sessions EXCEPT ![r].pc = "lookup" ]
    /\ UNCHANGED << brand_disambiguation, session_state, analysis_calls, last_event, edits,
                    logins, backend_vars, persistence_vars, variant_vars, medication >>

\* lines 226-240 for a medication whose name the table of Medication has: the
\* row is added to the Session, nothing is committed
SaveLookup ==
  \E r \in DOMAIN db_sessions :
    /\ db_sessions[r].pc = "lookup"
    /\ db_sessions[r].next <= Len(db_sessions[r].medications)
    /\ db_sessions' =
         IF db_sessions[r].medications[db_sessions[r].next].name \in medication
           THEN [ db_sessions EXCEPT
                    ![r].pending =
                       Append(@, UserMedicationRow(
                                   db_sessions[r].medications[db_sessions[r].next])),
                    ![r].next = @ + 1 ]
           ELSE [ db_sessions EXCEPT ![r].pc = "insert" ]
    /\ UNCHANGED << brand_disambiguation, session_state, user_medications, analysis_calls,
                    last_event, edits, logins, backend_vars, persistence_vars, variant_vars,
                    medication >>

\* lines 227-240 for a medication whose name the query of line 226 did not
\* find: the Medication is added and committed, together with the rows the
\* Session holds, and the medication's row is added to the Session.  The name
\* is unique in the table (models.py line 24): when another request has
\* inserted it since the query, the commit raises IntegrityError and the
\* request ends with what it had committed before.
SaveInsert ==
  \E r \in DOMAIN db_sessions :
    /\ db_sessions[r].pc = "insert"
    /\ IF db_sessions[r].medications[db_sessions[r].next].name \in medication
         THEN /\ db_sessions' = [ db_sessions EXCEPT ![r].pc = "failed",
                                                     ![r].pending = << >> ]
              /\ UNCHANGED << user_medications, medication >>
         ELSE /\ medication' =
                   medication \cup { db_sessions[r].medications[db_sessions[r].next].name }
              /\ user_medications' = user_medications \o db_sessions[r].pending
              /\ db_sessions' =
                   [ db_sessions EXCEPT
                       ![r].pending = << UserMedicationRow(
                                           db_sessions[r].medications[db_sessions[r].next]) >>,
                       ![r].next = @ + 1,
                       ![r].pc = "lookup" ]
    /\ UNCHANGED << brand_disambiguation, session_state, analysis_calls, last_event, edits,
                    logins, backend_vars, persistence_vars, variant_vars >>

\* lines 241-242: the commit after the loop
SaveCommit ==
  \E r \in DOMAIN db_sessions :
    /\ db_sessions[r].pc = "lookup"
    /\ db_sessions[r].next > Len(db_sessions[r].medications)
    /\ user_medications' = user_medications \o db_sessions[r].pending
    /\ db_sessions' = [ db_sessions EXCEPT ![r].pc = "done", ![r].pending = << >> ]
    /\ UNCHANGED << brand_disambiguation, session_state, analysis_calls, last_event, edits,
                    logins, backend_vars, persistence_vars, variant_vars, medication >>

\* GET /load_medications/{username} (lines 249-263) at any moment
ConcurrentLoad ==
  /\ ~ load_result.sent
  /\ load_result' = [ sent |-> TRUE, endpoint |-> "load_medications", status_code |-> 200,
                      medications |-> load_user_medications(user_medications) ]
  /\ UNCHANGED << frontend_vars, backend_vars, save_request, save_result, variant_vars,
                  concurrency_vars >>

\* POST /login (lines 185-208) at any moment
ConcurrentLogin ==
  /\ ~ load_result.sent
  /\ load_result' = [ sent |-> TRUE, endpoint |-> "login", status_code |-> 200,
                      medications |-> login(user_medications) ]
  /\ UNCHANGED << frontend_vars, backend_vars, save_request, save_result, variant_vars,
                  concurrency_vars >>

ConcurrentNext ==
  \/ SaveDelete
  \/ SaveLookup
  \/ SaveInsert
  \/ SaveCommit
  \/ ConcurrentLoad
  \/ ConcurrentLogin

ConcurrentSpec == ConcurrentInit /\ [][ConcurrentNext]_vars

\* the lists a load may return when saves are atomic: the list held before
\* the requests and the list of each request
WholeLists ==
  { load_user_medications(SavedFirst) }
    \cup { load_user_medications(save_user_medications(db_sessions[r].medications)) :
             r \in DOMAIN db_sessions }

\* C40: a load or a login that runs while saves replace the saved list returns
\* the list held before or the list of one of the save requests, never an
\* empty or a partial list; and when the save requests have ended, the stored
\* list is the list of one of them.
C40_SaveAtomic ==
  /\ load_result.sent => load_result.medications \in WholeLists
  /\ (\A r \in DOMAIN db_sessions : db_sessions[r].pc \in { "done", "failed" })
       => \E r \in DOMAIN db_sessions :
            user_medications = save_user_medications(db_sessions[r].medications)

====
